---- MODULE Spec2Model ----
(***************************************************************************)
(* Parallel Laplacian inversion solvers of BOUT++.                         *)
(*                                                                         *)
(* Relaxation solver: LaplaceParallelTri::solve                            *)
(*   (src/invert/laplace/impls/parallel_tri/parallel_tri.cxx).  The file   *)
(*   holds several revisions of the solver one after another; the model    *)
(*   follows the revision at lines 1018-1890 ("v3", the one that raises on *)
(*   an exhausted budget) and the revision at lines 508-1016 ("v2", which  *)
(*   leaves the loop with `break` instead).                                *)
(*                                                                         *)
(* Every rank runs the same program: for each Fourier mode kz it iterates  *)
(* on its two interface values, exchanging a convergence flag and an edge  *)
(* value with each x-neighbour it does not yet know to be converged.       *)
(* A value is modelled by its provenance <<rank, edge, mode, iteration>>,  *)
(* an error by the outcome of its comparison with the tolerance.  The      *)
(* interface rows of a rank enter the state when the rank reads them in    *)
(* is_diagonally_dominant, which it does at most once in a solve.  The     *)
(* options new_method and use_previous_timestep have their defaults.       *)
(* An action runs a rank from one blocking receive to the next at most.    *)
(***************************************************************************)
EXTENDS Integers, Naturals, Sequences, FiniteSets, TLC

\* Largest number of ranks along x (NXPE).
MaxProc == 2
\* Largest Fourier mode index solved for (modes 0..maxmode).
MaxMode == 1
\* Largest value drawn for the option maxits.
MaxMaxits == 2
\* Largest value drawn for the option max_cycle.
MaxCycle == 2
\* Largest value drawn for the option max_level.
MaxLevel == 2
\* Largest y index solved for (y-slices 0..MaxJy).
MaxJy == 1
\* Largest number of solve() calls made on one solver object.
MaxSolves == 3
\* Largest number of ranks along x drawn when a solver is constructed.
MaxNXPE == 4
\* Largest number of ranks along y drawn when a solver is constructed.
MaxNYPE == 2
\* Largest value drawn for max_level when the Level hierarchy is followed.
MaxChain == 32
\* Largest number of ranks along x cyclic reduction is run on.
MaxPcrProc == 8
\* Largest number of rows (GlobalNx - 4) cyclic reduction is run on.
MaxRows == 8
\* Largest number of GlobalIndexer objects constructed.
MaxInstances == 6

VARIABLES
  ver,            \* revision of the relaxation solver being run: "v2" or "v3"
  nproc,          \* number of ranks along x
  maxits,         \* option maxits
  rows,           \* rows[p] = <<|al|+|bl| <= 1, |au|+|bu| <= 1>> as read by rank p
  pc,             \* pc[p]: position of rank p inside solve()
  kz,             \* kz[p]: mode rank p is working on
  count,          \* count[p]: iteration counter of the current mode
  self_in, self_out, neighbour_in, neighbour_out,
  errs,           \* errs[p]: outcome of the four tolerance tests of this iteration
  xloc,           \* xloc[p][0..3]: halo/edge values of the current iterate
  xloclast,       \* xloclast[p][0..3]: the same for the previous iterate
  chan,           \* chan[<<p,q>>]: messages sent by p to q and not yet received
  first_call,     \* first_call[p][kz]
  selfErr,        \* history: rank p passed its own error test in this mode
  exceeded,       \* history: rank p ran out of iterations in some mode
  outcome,        \* outcome[p]: "running", "returned", or the failure raised
  \* Laplace1DMG::solve on one rank
  build,          \* "checked": array indices are asserted; "unchecked": they are not
  predict_exit,   \* option predict_exit
  max_cycle,      \* option max_cycle
  max_level,      \* option max_level
  mg_pc,          \* position of the rank inside Laplace1DMG::solve
  mg_count,       \* count: total iteration count
  subcount,       \* count of iterations on the current level
  cyclecount,     \* number of multigrid cycles
  cycle_eta,      \* predicted finishing cycle
  current_level,
  down,
  myproc,         \* the rank's index along x
  converged,      \* converged[kz]
  unsynced,       \* history: sweeps of xloc since it was last exchanged
  lastcheck,      \* history: cycle of the last call of calculate_total_residual
  peak,           \* history: coarsest level the solve has been on
  \* One LaplaceParallelTri object over several solve() calls, one rank
  use_previous,   \* option use_previous_timestep as set by the caller
  first_call_yk,  \* first_call(jy, kz)
  guardVector,    \* guardVector[jy][kz]: the solve call that computed the stored
                  \* upperGuardVector/lowerGuardVector and al, bl, au, bu; 0: none
  x0saved,        \* x0saved[jy][kz]: the solve call whose solution is stored; 0: zero
  nsolve,         \* number of solve() calls made so far
  lastreset,      \* history: value of nsolve at the last resetSolver()
  c_pc,           \* position inside solve(): "idle", "mode" or "loop"
  jy,             \* y-slice of the solve in progress
  ckz,            \* mode of the solve in progress
  store_coefficients,
  start,          \* history: where the iteration of the mode started from
  computed,       \* history: this solve computed the guard vectors of the mode
  done,           \* history: done[jy][kz]: last solve that completed the
                  \* mode; 0: none
  ncomp,          \* history: ncomp[jy][kz]: computations of the guard vectors
                  \* by storing solves since the reset or a non-storing solve
  \* Construction of a solver and set-up of the Level hierarchy, one rank
  solver,         \* "pcr": LaplacePCR, "1dmg": Laplace1DMG
  nype,           \* number of ranks along y (nproc is the number along x)
  ngx,            \* GlobalNx
  xproc, yproc,   \* the rank's indices along x and y
  s_pc,           \* position: "new", "rejected", "constructed", "coarse",
                  \* "solving", "blocked", "crashed"
  lv_l,           \* the level the loop over the coarse levels is at
  levels,         \* levels[l]: what Level::init has set on level l
  \* LaplacePCR::cr_pcr_solver on all ranks along x
  n_mpi,          \* rows per rank
  eager,          \* the MPI library completes a send before it is matched
  det0,           \* input: the 2x2 system of the last step is singular
  ppc,            \* ppc[r]: position of rank r inside cr_pcr_solver
  pl,             \* pl[r]: the loop counter l of the phase rank r is in
  sends,          \* sends posted and not yet received: <<from, to, tag, n>>,
                  \* the n-th message with this tag between the two ranks
  recvs,          \* receives posted and not yet completed: <<to, from, tag, n>>
  prounds,        \* history: communication rounds rank r has completed
  pstrides,       \* history: distances to the partners in the rank-wise rounds
  pcr_x,          \* pcr_x[r]: "none", "finite" or "nonfinite" solution
  \* The iteration statistics of one solver object
  ncalls,         \* number of mode solves counted so far
  ipt_mean_its,   \* the mean as a fraction <<numerator, denominator>>
  since,          \* history: <<sum, number>> of the iteration counts of the
                  \* mode solves since the last reset
  \* The static members of GlobalIndexer
  initialisedGlobal,
  globalInstance, \* the GlobalIndexer the pointer owns; 0: null
  made,           \* number of GlobalIndexer objects constructed so far
  got,            \* history: <<mesh, pointer>> of the last getInstance call
  \* The arrays of one mode of LaplaceParallelTri::solve after its iteration
  onFirstX, onLastX,  \* localmesh->firstX(), localmesh->lastX()
  minvb,          \* the particular solution
  upperGuardVector, lowerGuardVector,
  xk1dlast,       \* holds the converged edge values at xs - 1 and xe + 1
  xk1d,           \* the local solution
  nrec,           \* history: number of reconstructions made
  \* Laplace1DMG::solve on two ranks of the same solve
  ranks,          \* ranks[p]: position and loop variables of rank p
  \* LaplacePCR: the member nsys and the calls of cr_pcr_solver
  nsys,
  crcall,         \* st: "none" before construction, then how the last solve
                  \* ended; nmode; rows, nsys: the rows of the matrices passed
                  \* to the last call of cr_pcr_solver and the nsys it used;
                  \* calls: number of calls made
  \* PetscLib: the static member count, with the state of the PETSc library
  petsclib        \* count; alive: PetscLib objects constructed and not yet
                  \* destroyed; initialised: PetscInitialize called and
                  \* PetscFinalize not called since; last: the last operation;
                  \* refinal: the last operation called PetscFinalize on a
                  \* library that was not initialised

\* The relaxation solver's variables.
trivars == <<ver, nproc, maxits, rows, pc, kz, count, self_in, self_out,
             neighbour_in, neighbour_out, errs, xloc, xloclast, chan,
             first_call, selfErr, exceeded, outcome>>

\* The multigrid solver's variables.
mgvars == <<build, predict_exit, max_cycle, max_level, mg_pc, mg_count,
            subcount, cyclecount, cycle_eta, current_level, down, myproc,
            converged, unsynced, lastcheck, peak>>

\* The variables of the solver object that lives over several solves.
cachevars == <<use_previous, first_call_yk, guardVector, x0saved, nsolve,
               lastreset, c_pc, jy, ckz, store_coefficients, start, computed,
               done, ncomp>>

\* The variables of the construction and of the Level hierarchy.
setupvars == <<solver, nype, ngx, xproc, yproc, s_pc, lv_l, levels>>

\* The variables of parallel cyclic reduction.
pcrvars == <<n_mpi, eager, det0, ppc, pl, sends, recvs, prounds, pstrides,
             pcr_x>>

\* The variables of LaplacePCR's kernel calls and of PetscLib.
libvars == <<nsys, crcall, petsclib>>

\* The arrays the reconstruction of a mode's solution reads and writes.
recvars == <<onFirstX, onLastX, minvb, upperGuardVector, lowerGuardVector,
             xk1dlast, xk1d, nrec>>

\* The variables of the small objects followed on their own.
auxvars == <<ncalls, ipt_mean_its, since, initialisedGlobal, globalInstance,
             made, got, onFirstX, onLastX, minvb, upperGuardVector,
             lowerGuardVector, xk1dlast, xk1d, nrec, ranks, nsys, crcall,
             petsclib>>

\* The variables the relaxation solver never touches.
othervars == <<mgvars, cachevars, setupvars, pcrvars, auxvars>>

vars == <<trivars, othervars>>

Procs == 0 .. (nproc - 1)
Modes == 0 .. MaxMode

firstX(p) == p = 0
lastX(p) == p = nproc - 1

\* new_method option: its default.
new_method == FALSE

\* use_previous_timestep option: its default.
use_previous_timestep == FALSE

\* Provenance of a value that no iteration has produced yet: the starting
\* value (x0saved, boundary value, initial guess) on edge e of rank p in mode m.
NoVal(p, e, m) == <<p, e, m, -1>>

\* Content of an element of xloc that has never been assigned.
Unassigned(p) == <<p, 0, -1, -1>>

NoErrs == [rel_lower |-> FALSE, abs_lower |-> FALSE,
           rel_upper |-> FALSE, abs_upper |-> FALSE]

ErrOutcomes == [rel_lower : BOOLEAN, abs_lower : BOOLEAN,
                rel_upper : BOOLEAN, abs_upper : BOOLEAN]

\* is_diagonally_dominant(al,au,bl,bu,jy,kz): both interface rows of this rank.
is_diagonally_dominant(r) ==
  IF ~r[1] THEN FALSE
  ELSE IF ~r[2] THEN FALSE
  ELSE TRUE

\* The convergence test on the two interface values.
ErrorTest(e) ==
  (e.rel_lower \/ e.abs_lower) /\ (e.rel_upper \/ e.abs_upper)

\* Blocking point-to-point transport between x-neighbours.
Send(c, from, to, msg) == [c EXCEPT ![<<from, to>>] = Append(@, msg)]
CanRecv(c, from, to) == Len(c[<<from, to>>]) > 0
Head1(c, from, to) == Head(c[<<from, to>>])
Recv(c, from, to) == [c EXCEPT ![<<from, to>>] = Tail(@)]

Links(n) == {<<p, q>> \in (0 .. n - 1) \X (0 .. n - 1) : q = p + 1 \/ q = p - 1}

\* The multigrid solver is not in use.
MGIdle ==
  /\ build = "unchecked"
  /\ predict_exit = FALSE
  /\ max_cycle = 0
  /\ max_level = 0
  /\ mg_pc = "idle"
  /\ mg_count = 0
  /\ subcount = 0
  /\ cyclecount = 0
  /\ cycle_eta = 0
  /\ current_level = 0
  /\ down = TRUE
  /\ myproc = 0
  /\ converged = [m \in Modes |-> FALSE]
  /\ unsynced = 0
  /\ lastcheck = 0
  /\ peak = 0

Slices == 0 .. MaxJy

\* No solver object is followed over several solves.
CacheIdle ==
  /\ use_previous = FALSE
  /\ first_call_yk = [y \in Slices |-> [m \in Modes |-> TRUE]]
  /\ guardVector = [y \in Slices |-> [m \in Modes |-> 0]]
  /\ x0saved = [y \in Slices |-> [m \in Modes |-> 0]]
  /\ nsolve = 0
  /\ lastreset = 0
  /\ c_pc = "unused"
  /\ jy = 0
  /\ ckz = 0
  /\ store_coefficients = TRUE
  /\ start = <<"none", 0>>
  /\ computed = FALSE
  /\ done = [y \in Slices |-> [m \in Modes |-> 0]]
  /\ ncomp = [y \in Slices |-> [m \in Modes |-> 0]]

\* A Level no init has been called on.
NoLevel == [st |-> "none", from |-> -1, included |-> FALSE,
            included_up |-> FALSE]

\* No construction is followed.
SetupIdle ==
  /\ solver = "none"
  /\ nype = 1
  /\ ngx = 8
  /\ xproc = 0
  /\ yproc = 0
  /\ s_pc = "unused"
  /\ lv_l = 0
  /\ levels = [l \in 0 .. MaxChain |-> NoLevel]

\* Parallel cyclic reduction is not in use.
PcrIdle ==
  /\ n_mpi = 1
  /\ eager = TRUE
  /\ det0 = FALSE
  /\ ppc = <<>>
  /\ pl = <<>>
  /\ sends = {}
  /\ recvs = {}
  /\ prounds = <<>>
  /\ pstrides = <<>>
  /\ pcr_x = <<>>

\* The small objects as they are constructed.
\* No LaplacePCR is constructed; count = 0 is PetscLib's static initialiser.
LibIdle ==
  /\ nsys = 0
  /\ crcall = [st |-> "none", nmode |-> 0, rows |-> 0, nsys |-> 0, calls |-> 0]
  /\ petsclib = [count |-> 0, alive |-> 0, initialised |-> FALSE,
                 last |-> "none", refinal |-> FALSE]

AuxIdle ==
  /\ LibIdle
  /\ ncalls = 0
  /\ ipt_mean_its = <<0, 1>>
  /\ since = <<0, 0>>
  /\ initialisedGlobal = FALSE
  /\ globalInstance = 0
  /\ made = 0
  /\ got = <<"none", 0>>
  /\ onFirstX = TRUE
  /\ onLastX = TRUE
  /\ minvb = <<>>
  /\ upperGuardVector = <<>>
  /\ lowerGuardVector = <<>>
  /\ xk1dlast = <<>>
  /\ xk1d = <<>>
  /\ nrec = 0
  /\ ranks = <<>>

\* The solvers other than the relaxation solver are not in use.
OthersIdle == MGIdle /\ CacheIdle /\ SetupIdle /\ PcrIdle /\ AuxIdle

\* The per-rank state of the relaxation solver at the start of a solve.
RanksInit(n) ==
  /\ rows = [p \in 0 .. n - 1 |-> <<TRUE, TRUE>>]
  /\ pc = [p \in 0 .. n - 1 |-> "mode_init"]
  /\ kz = [p \in 0 .. n - 1 |-> 0]
  /\ count = [p \in 0 .. n - 1 |-> 0]
  /\ self_in = [p \in 0 .. n - 1 |-> FALSE]
  /\ self_out = [p \in 0 .. n - 1 |-> FALSE]
  /\ neighbour_in = [p \in 0 .. n - 1 |-> FALSE]
  /\ neighbour_out = [p \in 0 .. n - 1 |-> FALSE]
  /\ errs = [p \in 0 .. n - 1 |-> NoErrs]
  /\ xloc = [p \in 0 .. n - 1 |-> [i \in 0 .. 3 |-> Unassigned(p)]]
  /\ xloclast = [p \in 0 .. n - 1 |-> [i \in 0 .. 3 |-> Unassigned(p)]]
  /\ chan = [l \in Links(n) |-> <<>>]
  /\ first_call = [p \in 0 .. n - 1 |-> [m \in Modes |-> TRUE]]
  /\ selfErr = [p \in 0 .. n - 1 |-> FALSE]
  /\ exceeded = [p \in 0 .. n - 1 |-> FALSE]
  /\ outcome = [p \in 0 .. n - 1 |-> "running"]

InitCommon(n) ==
  /\ nproc = n
  /\ maxits \in 0 .. MaxMaxits
  /\ RanksInit(n)
  /\ OthersIdle

Init ==
  /\ ver = "v3"
  /\ \E n \in 1 .. MaxProc : InitCommon(n)

\* Start of the loop body over kz: counters and flags of the mode.
StartMode(p) ==
  /\ pc[p] = "mode_init"
  /\ count' = [count EXCEPT ![p] = 0]
  /\ self_in' = [self_in EXCEPT ![p] = FALSE]
  /\ self_out' = [self_out EXCEPT ![p] = FALSE]
  /\ neighbour_in' = [neighbour_in EXCEPT ![p] = firstX(p)]
  /\ neighbour_out' = [neighbour_out EXCEPT ![p] = lastX(p)]
  /\ selfErr' = [selfErr EXCEPT ![p] = FALSE]
  /\ xloclast' = [xloclast EXCEPT ![p] = [i \in 0 .. 3 |-> NoVal(p, i, kz[p])]]
  /\ pc' = [pc EXCEPT ![p] =
              IF ver = "v3" /\ (first_call[p][kz[p]] \/ ~use_previous_timestep)
              THEN "guess_in" ELSE "loop_top"]
  /\ UNCHANGED <<othervars, ver, nproc, maxits, rows, kz, errs, xloc, chan, first_call,
                 exceeded, outcome>>

\* get_initial_guess, inner side: post the receive, send to the inner neighbour.
GuessInSend(p) ==
  /\ pc[p] = "guess_in"
  /\ IF firstX(p)
     THEN /\ pc' = [pc EXCEPT ![p] = "guess_out"]
          /\ chan' = chan
     ELSE /\ pc' = [pc EXCEPT ![p] = "guess_in_wait"]
          /\ chan' = Send(chan, p, p - 1,
                          [kind |-> "guess", flag |-> FALSE, val |-> NoVal(p, 1, kz[p])])
  /\ UNCHANGED <<othervars, ver, nproc, maxits, rows, kz, count, self_in, self_out,
                 neighbour_in, neighbour_out, errs, xloc, xloclast,
                 first_call, selfErr, exceeded, outcome>>

\* get_initial_guess, inner side: wait for the inner neighbour's data.
GuessInWait(p) ==
  /\ pc[p] = "guess_in_wait"
  /\ CanRecv(chan, p - 1, p)
  /\ Head1(chan, p - 1, p).kind = "guess"
  /\ chan' = Recv(chan, p - 1, p)
  /\ xloclast' = [xloclast EXCEPT ![p][0] = Head1(chan, p - 1, p).val]
  /\ pc' = [pc EXCEPT ![p] = "guess_out"]
  /\ UNCHANGED <<othervars, ver, nproc, maxits, rows, kz, count, self_in, self_out,
                 neighbour_in, neighbour_out, errs, xloc,
                 first_call, selfErr, exceeded, outcome>>

\* get_initial_guess, outer side: post the receive, send to the outer neighbour.
GuessOutSend(p) ==
  /\ pc[p] = "guess_out"
  /\ IF lastX(p)
     THEN /\ pc' = [pc EXCEPT ![p] = "loop_top"]
          /\ chan' = chan
     ELSE /\ pc' = [pc EXCEPT ![p] = "guess_out_wait"]
          /\ chan' = Send(chan, p, p + 1,
                          [kind |-> "guess", flag |-> FALSE, val |-> NoVal(p, 2, kz[p])])
  /\ UNCHANGED <<othervars, ver, nproc, maxits, rows, kz, count, self_in, self_out,
                 neighbour_in, neighbour_out, errs, xloc, xloclast,
                 first_call, selfErr, exceeded, outcome>>

\* get_initial_guess, outer side: wait for the outer neighbour's data.
GuessOutWait(p) ==
  /\ pc[p] = "guess_out_wait"
  /\ CanRecv(chan, p + 1, p)
  /\ Head1(chan, p + 1, p).kind = "guess"
  /\ chan' = Recv(chan, p + 1, p)
  /\ xloclast' = [xloclast EXCEPT ![p][3] = Head1(chan, p + 1, p).val]
  /\ pc' = [pc EXCEPT ![p] = "loop_top"]
  /\ UNCHANGED <<othervars, ver, nproc, maxits, rows, kz, count, self_in, self_out,
                 neighbour_in, neighbour_out, errs, xloc,
                 first_call, selfErr, exceeded, outcome>>

\* Variant: the test is not held back in the first iteration.
OwnTest_FirstIterationToo(c, e) == ErrorTest(e)

\* The rank's own convergence test: never passed in the first iteration.
OwnTest(c, e) == c > 0 /\ ErrorTest(e)

\* Top of the while loop: new interface values from the previous halo values,
\* get_errors on both of them, and the rank's own flags set when its test passes.
Update(p) ==
  /\ pc[p] = "loop_top"
  /\ ver = "v3"
  /\ xloc' = [xloc EXCEPT ![p][1] = <<p, 1, kz[p], count[p]>>,
                          ![p][2] = <<p, 2, kz[p], count[p]>>]
  /\ \E e \in ErrOutcomes :
       /\ errs' = [errs EXCEPT ![p] = e]
       /\ self_in' = [self_in EXCEPT ![p] = IF OwnTest(count[p], e) THEN TRUE ELSE @]
       /\ self_out' = [self_out EXCEPT ![p] = IF OwnTest(count[p], e) THEN TRUE ELSE @]
       /\ selfErr' = [selfErr EXCEPT ![p] = OwnTest(count[p], e)]
  /\ pc' = [pc EXCEPT ![p] = "comm_in"]
  /\ UNCHANGED <<othervars, ver, nproc, maxits, rows, kz, count, neighbour_in,
                 neighbour_out, xloclast, chan, first_call, exceeded, outcome>>

\* Stamp <<rank, 0, mode, iteration>> carried by a flag message.
Stamp(p) == <<p, 0, kz[p], count[p]>>

\* neighbour_in = communicateXIn(self_in): the send half, skipped once the
\* inner neighbour is known to be converged.  The errors of the iteration are
\* not read again: they leave the state here.
CommInFlag(p) ==
  /\ pc[p] = "comm_in"
  /\ IF neighbour_in[p]
     THEN /\ pc' = [pc EXCEPT ![p] = "comm_out"]
          /\ chan' = chan
     ELSE /\ pc' = [pc EXCEPT ![p] = "comm_in_flag_wait"]
          /\ chan' = Send(chan, p, p - 1,
                          [kind |-> "flag", flag |-> self_in[p], val |-> Stamp(p)])
  /\ errs' = [errs EXCEPT ![p] = NoErrs]
  /\ UNCHANGED <<othervars, ver, nproc, maxits, rows, kz, count, self_in, self_out,
                 neighbour_in, neighbour_out, xloc, xloclast,
                 first_call, selfErr, exceeded, outcome>>

\* The receive half of the flag exchange, then the send half of
\* xloc[0] = communicateXIn(xloc[1]).
CommInFlagRecv(p) ==
  /\ pc[p] = "comm_in_flag_wait"
  /\ CanRecv(chan, p - 1, p)
  /\ Head1(chan, p - 1, p).kind = "flag"
  /\ neighbour_in' = [neighbour_in EXCEPT ![p] = Head1(chan, p - 1, p).flag]
  /\ chan' = Send(Recv(chan, p - 1, p), p, p - 1,
                  [kind |-> "val", flag |-> FALSE,
                   val |-> IF new_method THEN xloc[p][2] ELSE xloc[p][1]])
  /\ pc' = [pc EXCEPT ![p] = "comm_in_val_wait"]
  /\ UNCHANGED <<othervars, ver, nproc, maxits, rows, kz, count, self_in, self_out,
                 neighbour_out, errs, xloc, xloclast,
                 first_call, selfErr, exceeded, outcome>>

\* Variant: the rank goes on without waiting for the inner neighbour's value.
CommInValRecv_NoWait(p) ==
  /\ pc[p] = "comm_in_val_wait"
  /\ pc' = [pc EXCEPT ![p] = "comm_out"]
  /\ UNCHANGED <<othervars, ver, nproc, maxits, rows, kz, count, self_in, self_out,
                 neighbour_in, neighbour_out, errs, xloc, xloclast, chan,
                 first_call, selfErr, exceeded, outcome>>

\* The receive half of the value exchange with the inner neighbour.
CommInValRecv(p) ==
  /\ pc[p] = "comm_in_val_wait"
  /\ CanRecv(chan, p - 1, p)
  /\ Head1(chan, p - 1, p).kind = "val"
  /\ xloc' = [xloc EXCEPT ![p][0] = Head1(chan, p - 1, p).val]
  /\ chan' = Recv(chan, p - 1, p)
  /\ pc' = [pc EXCEPT ![p] = "comm_out"]
  /\ UNCHANGED <<othervars, ver, nproc, maxits, rows, kz, count, self_in, self_out,
                 neighbour_in, neighbour_out, errs, xloclast,
                 first_call, selfErr, exceeded, outcome>>

\* neighbour_out = communicateXOut(self_out): the send half.
CommOutFlag(p) ==
  /\ pc[p] = "comm_out"
  /\ IF neighbour_out[p]
     THEN /\ pc' = [pc EXCEPT ![p] = "break_check"]
          /\ chan' = chan
     ELSE /\ pc' = [pc EXCEPT ![p] = "comm_out_flag_wait"]
          /\ chan' = Send(chan, p, p + 1,
                          [kind |-> "flag", flag |-> self_out[p], val |-> Stamp(p)])
  /\ UNCHANGED <<othervars, ver, nproc, maxits, rows, kz, count, self_in, self_out,
                 neighbour_in, neighbour_out, errs, xloc, xloclast,
                 first_call, selfErr, exceeded, outcome>>

\* Variant: the lower interface value is sent outwards.
CommOutFlagRecv_LowerEdge(p) ==
  /\ pc[p] = "comm_out_flag_wait"
  /\ CanRecv(chan, p + 1, p)
  /\ Head1(chan, p + 1, p).kind = "flag"
  /\ neighbour_out' = [neighbour_out EXCEPT ![p] = Head1(chan, p + 1, p).flag]
  /\ chan' = Send(Recv(chan, p + 1, p), p, p + 1,
                  [kind |-> "val", flag |-> FALSE, val |-> xloc[p][1]])
  /\ pc' = [pc EXCEPT ![p] = "comm_out_val_wait"]
  /\ UNCHANGED <<othervars, ver, nproc, maxits, rows, kz, count, self_in, self_out,
                 neighbour_in, errs, xloc, xloclast,
                 first_call, selfErr, exceeded, outcome>>

\* The receive half of the flag exchange, then the send half of
\* xloc[3] = communicateXOut(xloc[2]).
CommOutFlagRecv(p) ==
  /\ pc[p] = "comm_out_flag_wait"
  /\ CanRecv(chan, p + 1, p)
  /\ Head1(chan, p + 1, p).kind = "flag"
  /\ neighbour_out' = [neighbour_out EXCEPT ![p] = Head1(chan, p + 1, p).flag]
  /\ chan' = Send(Recv(chan, p + 1, p), p, p + 1,
                  [kind |-> "val", flag |-> FALSE,
                   val |-> IF new_method THEN xloc[p][1] ELSE xloc[p][2]])
  /\ pc' = [pc EXCEPT ![p] = "comm_out_val_wait"]
  /\ UNCHANGED <<othervars, ver, nproc, maxits, rows, kz, count, self_in, self_out,
                 neighbour_in, errs, xloc, xloclast,
                 first_call, selfErr, exceeded, outcome>>

\* The receive half of the value exchange with the outer neighbour.
CommOutValRecv(p) ==
  /\ pc[p] = "comm_out_val_wait"
  /\ CanRecv(chan, p + 1, p)
  /\ Head1(chan, p + 1, p).kind = "val"
  /\ xloc' = [xloc EXCEPT ![p][3] = Head1(chan, p + 1, p).val]
  /\ chan' = Recv(chan, p + 1, p)
  /\ pc' = [pc EXCEPT ![p] = "break_check"]
  /\ UNCHANGED <<othervars, ver, nproc, maxits, rows, kz, count, self_in, self_out,
                 neighbour_in, neighbour_out, errs, xloclast,
                 first_call, selfErr, exceeded, outcome>>

\* Variant: a side whose neighbour is known to be converged counts as
\* converged in the test itself.
BreakConverged_NeighbourFlags(p) ==
  /\ pc[p] = "break_check"
  /\ self_in[p] \/ neighbour_in[p]
  /\ self_out[p] \/ neighbour_out[p]
  /\ pc' = [pc EXCEPT ![p] = "after_loop"]
  /\ UNCHANGED <<othervars, ver, nproc, maxits, rows, kz, count, self_in, self_out,
                 neighbour_in, neighbour_out, errs, xloc, xloclast, chan,
                 first_call, selfErr, exceeded, outcome>>

\* Variant: the loop is left as soon as one side is converged.
BreakConverged_OneSide(p) ==
  /\ pc[p] = "break_check"
  /\ self_in[p] \/ self_out[p]
  /\ pc' = [pc EXCEPT ![p] = "after_loop"]
  /\ UNCHANGED <<othervars, ver, nproc, maxits, rows, kz, count, self_in, self_out,
                 neighbour_in, neighbour_out, errs, xloc, xloclast, chan,
                 first_call, selfErr, exceeded, outcome>>

\* if (self_in and self_out) break;
BreakConverged(p) ==
  /\ pc[p] = "break_check"
  /\ self_in[p] /\ self_out[p]
  /\ pc' = [pc EXCEPT ![p] = "after_loop"]
  /\ UNCHANGED <<othervars, ver, nproc, maxits, rows, kz, count, self_in, self_out,
                 neighbour_in, neighbour_out, errs, xloc, xloclast, chan,
                 first_call, selfErr, exceeded, outcome>>

\* Rest of the loop body with the budget not yet exhausted: a converged
\* neighbour sets the flag of that side, ++count, xloclast = xloc.
Continue(p) ==
  /\ pc[p] = "break_check"
  /\ ~(self_in[p] /\ self_out[p])
  /\ ~(count[p] + 1 > maxits)
  /\ self_in' = [self_in EXCEPT ![p] = IF neighbour_in[p] THEN TRUE ELSE @]
  /\ self_out' = [self_out EXCEPT ![p] = IF neighbour_out[p] THEN TRUE ELSE @]
  /\ count' = [count EXCEPT ![p] = @ + 1]
  /\ xloclast' = [xloclast EXCEPT ![p] = xloc[p]]
  /\ pc' = [pc EXCEPT ![p] = "loop_top"]
  /\ UNCHANGED <<othervars, ver, nproc, maxits, rows, kz, neighbour_in, neighbour_out,
                 errs, xloc, chan, first_call, selfErr, exceeded, outcome>>

\* Rest of the loop body when ++count exceeds maxits: the failure is raised,
\* classified by the rank's own is_diagonally_dominant.
BudgetThrow(p) ==
  /\ pc[p] = "break_check"
  /\ ver = "v3"
  /\ ~(self_in[p] /\ self_out[p])
  /\ count[p] + 1 > maxits
  /\ self_in' = [self_in EXCEPT ![p] = IF neighbour_in[p] THEN TRUE ELSE @]
  /\ self_out' = [self_out EXCEPT ![p] = IF neighbour_out[p] THEN TRUE ELSE @]
  /\ count' = [count EXCEPT ![p] = @ + 1]
  /\ exceeded' = [exceeded EXCEPT ![p] = TRUE]
  /\ \E r \in BOOLEAN \X BOOLEAN :
       /\ rows' = [rows EXCEPT ![p] = r]
       /\ outcome' = [outcome EXCEPT ![p] = IF is_diagonally_dominant(r)
                                             THEN "budget_too_low"
                                             ELSE "not_guaranteed"]
  /\ pc' = [pc EXCEPT ![p] = "raised"]
  /\ UNCHANGED <<othervars, ver, nproc, maxits, kz, neighbour_in, neighbour_out,
                 errs, xloc, xloclast, chan, first_call, selfErr>>

\* Outcomes of the earlier revision's tolerance tests: one error_rel and one
\* error_abs, the maximum over the local grid points.
ErrOutcomesV2 == {e \in ErrOutcomes : e.rel_upper = e.rel_lower /\ e.abs_upper = e.abs_lower}

\* The earlier revision's own test.
OwnTestV2(e) == e.rel_lower \/ e.abs_lower

\* Earlier revision, top of the while loop: local tridiagonal solve, errors
\* over the local points, own flags set when the test passes.
UpdateV2(p) ==
  /\ pc[p] = "loop_top"
  /\ ver = "v2"
  /\ xloc' = [xloc EXCEPT ![p][1] = <<p, 1, kz[p], count[p]>>,
                          ![p][2] = <<p, 2, kz[p], count[p]>>]
  /\ \E e \in ErrOutcomesV2 :
       /\ errs' = [errs EXCEPT ![p] = e]
       /\ self_in' = [self_in EXCEPT ![p] = IF OwnTestV2(e) THEN TRUE ELSE @]
       /\ self_out' = [self_out EXCEPT ![p] = IF OwnTestV2(e) THEN TRUE ELSE @]
       /\ selfErr' = [selfErr EXCEPT ![p] = OwnTestV2(e)]
  /\ pc' = [pc EXCEPT ![p] = "comm_in"]
  /\ UNCHANGED <<othervars, ver, nproc, maxits, rows, kz, count, neighbour_in,
                 neighbour_out, xloclast, chan, first_call, exceeded, outcome>>

\* Earlier revision, rest of the loop body when ++count exceeds maxits:
\* the loop is left with `break` and the solve carries on.
BudgetBreak(p) ==
  /\ pc[p] = "break_check"
  /\ ver = "v2"
  /\ ~(self_in[p] /\ self_out[p])
  /\ count[p] + 1 > maxits
  /\ self_in' = [self_in EXCEPT ![p] = IF neighbour_in[p] THEN TRUE ELSE @]
  /\ self_out' = [self_out EXCEPT ![p] = IF neighbour_out[p] THEN TRUE ELSE @]
  /\ count' = [count EXCEPT ![p] = @ + 1]
  /\ exceeded' = [exceeded EXCEPT ![p] = TRUE]
  /\ pc' = [pc EXCEPT ![p] = "after_loop"]
  /\ UNCHANGED <<othervars, ver, nproc, maxits, rows, kz, neighbour_in, neighbour_out,
                 errs, xloc, xloclast, chan, first_call, selfErr, outcome>>

\* After the loop: iteration statistics, reconstruction of the local solution,
\* next kz or return.  first_call is cleared mode by mode (per-mode flag of the
\* later revision) or at the end of the solve (single flag of the earlier one).
FinishMode(p) ==
  /\ pc[p] = "after_loop"
  /\ IF kz[p] = MaxMode
     THEN /\ pc' = [pc EXCEPT ![p] = "returned"]
          /\ outcome' = [outcome EXCEPT ![p] = "returned"]
          /\ kz' = kz
          /\ first_call' = [first_call EXCEPT ![p] = [m \in Modes |-> FALSE]]
     ELSE /\ pc' = [pc EXCEPT ![p] = "mode_init"]
          /\ outcome' = outcome
          /\ kz' = [kz EXCEPT ![p] = @ + 1]
          /\ first_call' = [first_call EXCEPT ![p][kz[p]] = (ver # "v3")]
  /\ UNCHANGED <<othervars, ver, nproc, maxits, rows, count, self_in, self_out,
                 neighbour_in, neighbour_out, errs, xloc, xloclast, chan,
                 selfErr, exceeded>>

Next ==
  \E p \in Procs :
    \/ StartMode(p)
    \/ GuessInSend(p)
    \/ GuessInWait(p)
    \/ GuessOutSend(p)
    \/ GuessOutWait(p)
    \/ Update(p)
    \/ CommInFlag(p)
    \/ CommInFlagRecv(p)
    \/ CommInValRecv(p)
    \/ CommOutFlag(p)
    \/ CommOutFlagRecv(p)
    \/ CommOutValRecv(p)
    \/ BreakConverged(p)
    \/ Continue(p)
    \/ BudgetThrow(p)
    \/ FinishMode(p)

Spec == Init /\ [][Next]_vars

\* The earlier revision of the relaxation solver.
InitV2 ==
  /\ ver = "v2"
  /\ \E n \in 1 .. MaxProc : InitCommon(n)

NextV2 ==
  \E p \in Procs :
    \/ StartMode(p)
    \/ UpdateV2(p)
    \/ CommInFlag(p)
    \/ CommInFlagRecv(p)
    \/ CommInValRecv(p)
    \/ CommOutFlag(p)
    \/ CommOutFlagRecv(p)
    \/ CommOutValRecv(p)
    \/ BreakConverged(p)
    \/ Continue(p)
    \/ BudgetBreak(p)
    \/ FinishMode(p)

SpecV2 == InitV2 /\ [][NextV2]_vars

(***************************************************************************)
(* Multigrid solver: Laplace1DMG::solve                                    *)
(*   (src/invert/laplace/impls/1d_multigrid/1d_multigrid.cxx), one rank.   *)
(* The rank's position is followed through the while loop of the solve.    *)
(* An array element read or written outside its bounds raises the          *)
(* assertion failure in a build that checks indices; in a build that does  *)
(* not, the solve goes on with an arbitrary value or the process dies.     *)
(* A loop that cannot end dies when it leaves the mapped memory.  A        *)
(* blocking exchange completes, or blocks for good when the peer is lost.  *)
(***************************************************************************)

\* is_pow2 of utils.hxx.
is_pow2(x) == \E k \in 0 .. x : x = 2 ^ k

\* Level::included on this rank at level l.
Included(l) ==
  IF l = 0 THEN TRUE
  ELSE (myproc % (2 ^ l) = 0) \/ myproc = nproc - 1

AllConverged == \A m \in Modes : converged[m]

\* The condition under which calculate_total_residual is called in a cycle.
CheckDue(c, eta, pe) == c < 3 \/ c > eta - 5 \/ ~pe

\* Ways a blocking exchange with the other ranks can end for this rank.
Exchange(next) == IF nproc > 1 THEN {next, "blocked"} ELSE {next}

\* Ways an out-of-bounds array access can end, going on to `next` if it does.
OutOfBounds(next) ==
  IF build = "checked" THEN {"raised_assert"} ELSE {next, "crashed"}

\* Ways a loop that runs off the end of its arrays can end.
RunsAway == IF build = "checked" THEN {"raised_assert"} ELSE {"crashed"}

InitMG ==
  /\ ver = "mg"
  /\ nproc \in {n \in 1 .. MaxProc : is_pow2(n)}
  /\ maxits \in 0 .. MaxMaxits
  /\ RanksInit(nproc)
  /\ build \in {"checked", "unchecked"}
  /\ predict_exit \in BOOLEAN
  /\ max_cycle \in 0 .. MaxCycle
  /\ max_level \in -1 .. MaxLevel
  /\ myproc \in 0 .. nproc - 1
  /\ mg_pc = "init_levels"
  /\ mg_count = 0
  /\ subcount = 0
  /\ cyclecount = 0
  /\ cycle_eta = 0
  /\ current_level = 0
  /\ down = TRUE
  /\ converged \in [Modes -> BOOLEAN]
  /\ unsynced = 0
  /\ lastcheck = 0
  /\ peak = 0
  /\ CacheIdle
  /\ SetupIdle
  /\ PcrIdle
  /\ AuxIdle

\* Variant: the flags are left as the constructor or the last solve left them.
ResetConverged_Kept == converged

\* `for (kz < nmode) converged[kz] = false` ahead of the loop.
ResetConverged == [m \in Modes |-> FALSE]

\* Start of the solve: the Level hierarchy is initialised (first_call is set),
\* xloc is set from x0saved and the loop variables are initialised, converged
\* last of them (the constructor allocates it and sets no element).  levels has
\* max_level + 1 elements; the coarse levels exchange coefficients with the
\* ranks myproc - 2^l and myproc + 2^l, which is no rank once 2^l > nproc.
MGInitLevels ==
  /\ mg_pc = "init_levels"
  /\ mg_pc' \in (IF max_level < 0 THEN {"crashed"}
                 ELSE IF nproc > 1 /\ 2 ^ max_level > nproc
                      THEN {"crashed", "blocked", "sweep"}
                 ELSE {"sweep"})
  /\ mg_count' = 0
  /\ subcount' = 0
  /\ cyclecount' = 0
  /\ cycle_eta' = 0
  /\ current_level' = 0
  /\ down' = TRUE
  /\ converged' = IF mg_pc' = "sweep" THEN ResetConverged ELSE converged
  /\ unsynced' = 0
  /\ UNCHANGED <<trivars, auxvars, pcrvars, cachevars, setupvars, build, predict_exit, max_cycle, max_level, myproc,
                 lastcheck, peak>>

\* levels[current_level].gauss_seidel_red_black_local: the sweep over the
\* unconverged modes reads xloc(-1, kz) and exchanges nothing.
MGSweep ==
  /\ mg_pc = "sweep"
  /\ LET after == IF current_level = 0 /\ subcount = max_cycle - 1
                  THEN "cycle" ELSE "advance"
     IN IF Included(current_level) /\ ~AllConverged
        THEN /\ mg_pc' \in OutOfBounds(after)
             /\ unsynced' = IF mg_pc' = after THEN unsynced + 1 ELSE unsynced
        ELSE /\ mg_pc' = after
             /\ unsynced' = unsynced
  /\ UNCHANGED <<trivars, auxvars, pcrvars, cachevars, setupvars, build, predict_exit, max_cycle, max_level, mg_count,
                 subcount, cyclecount, cycle_eta, current_level, down, myproc,
                 converged, lastcheck, peak>>

\* End of a cycle on level 0: ++cyclecount and levels[0].calculate_residual,
\* whose inner loop `for (ix = 0; ix < l.nmode; kz++)` cannot end once it is
\* entered, which it is for the first unconverged mode.
MGCycle ==
  /\ mg_pc = "cycle"
  /\ cyclecount' = cyclecount + 1
  /\ mg_pc' \in (IF Included(0) /\ ~AllConverged THEN RunsAway
                 ELSE IF CheckDue(cyclecount + 1, cycle_eta, predict_exit)
                      THEN {"total_residual"}
                 ELSE {"advance"})
  /\ UNCHANGED <<trivars, auxvars, pcrvars, cachevars, setupvars, build, predict_exit, max_cycle, max_level, mg_count,
                 subcount, cycle_eta, current_level, down, myproc, converged,
                 unsynced, lastcheck, peak>>

\* Values the prediction can take.
Etas == 0 .. (MaxMaxits + 1)

\* calculate_total_residual and the prediction of cycle_eta in the first two
\* cycles.  Every position from which this is taken follows a return of
\* calculate_residual with all modes converged; converged is set nowhere
\* else, so no solve takes it and it is no part of the next-state relation.
MGTotalResidual ==
  /\ mg_pc = "total_residual"
  /\ lastcheck' = cyclecount
  /\ converged' \in [Modes -> BOOLEAN]
  /\ \A m \in Modes : converged[m] => converged'[m]
  /\ cycle_eta' \in (IF cyclecount < 3 /\ predict_exit THEN Etas ELSE {cycle_eta})
  /\ mg_pc' \in Exchange("advance")
  /\ UNCHANGED <<trivars, auxvars, pcrvars, cachevars, setupvars, build, predict_exit, max_cycle, max_level, mg_count,
                 subcount, cyclecount, current_level, down, myproc, unsynced,
                 peak>>

\* Position after ++count: the budget test of the loop body's end.
AfterStep == IF mg_count + 1 > maxits THEN "budget" ELSE "sweep"

\* ++count, ++subcount with subcount < max_cycle: stay on the level.
MGStay ==
  /\ mg_pc = "advance"
  /\ subcount + 1 < max_cycle
  /\ mg_count' = mg_count + 1
  /\ subcount' = subcount + 1
  /\ mg_pc' = AfterStep
  /\ UNCHANGED <<trivars, auxvars, pcrvars, cachevars, setupvars, build, predict_exit, max_cycle, max_level,
                 cyclecount, cycle_eta, current_level, down, myproc, converged,
                 unsynced, lastcheck, peak>>

\* all(converged) and current_level == 0: break.  Like MGTotalResidual it is
\* taken by no solve and is no part of the next-state relation.
MGBreak ==
  /\ mg_pc = "advance"
  /\ ~(subcount + 1 < max_cycle)
  /\ AllConverged /\ current_level = 0
  /\ mg_count' = mg_count + 1
  /\ subcount' = subcount + 1
  /\ mg_pc' = "after_loop"
  /\ UNCHANGED <<trivars, auxvars, pcrvars, cachevars, setupvars, build, predict_exit, max_cycle, max_level,
                 cyclecount, cycle_eta, current_level, down, myproc, converged,
                 unsynced, lastcheck, peak>>

\* The level a refinement step moves to.
RefineTo(l) == l - 1

\* Variant: the coarsening goes down two levels at a time.
CoarsenTo_TwoLevels(l) == l + 2

\* The level a coarsening step moves to.
CoarsenTo(l) == l + 1

\* not down: refine, --current_level, update_solution and the exchange of the
\* finer level's xloc.
MGRefine ==
  /\ mg_pc = "advance"
  /\ ~(subcount + 1 < max_cycle)
  /\ ~(AllConverged /\ current_level = 0)
  /\ ~down
  /\ mg_count' = mg_count + 1
  /\ subcount' = 0
  /\ current_level' = RefineTo(current_level)
  /\ down' = (current_level' = 0)
  /\ unsynced' = 0
  /\ mg_pc' \in Exchange(AfterStep)
  /\ UNCHANGED <<trivars, auxvars, pcrvars, cachevars, setupvars, build, predict_exit, max_cycle, max_level,
                 cyclecount, cycle_eta, myproc, converged, lastcheck, peak>>

\* down and max_level > 0, on level 0 or on a level this rank is not included
\* in: the exchange of the residual, ++current_level and coarsen, which sets
\* the coarse xloc to zero.
MGCoarsen ==
  /\ mg_pc = "advance"
  /\ ~(subcount + 1 < max_cycle)
  /\ ~(AllConverged /\ current_level = 0)
  /\ down /\ max_level > 0
  /\ current_level = 0 \/ ~Included(current_level) \/ AllConverged
  /\ mg_count' = mg_count + 1
  /\ subcount' = 0
  /\ current_level' = CoarsenTo(current_level)
  /\ down' = ~(current_level' = max_level)
  /\ peak' = IF current_level' > peak THEN current_level' ELSE peak
  /\ unsynced' = 0
  /\ mg_pc' \in Exchange(AfterStep)
  /\ UNCHANGED <<trivars, auxvars, pcrvars, cachevars, setupvars, build, predict_exit, max_cycle, max_level,
                 cyclecount, cycle_eta, myproc, converged, lastcheck>>

\* down and max_level > 0 on a coarse level the rank is included in:
\* calculate_residual is called first and cannot end.
MGCoarsenResidual ==
  /\ mg_pc = "advance"
  /\ ~(subcount + 1 < max_cycle)
  /\ down /\ max_level > 0
  /\ current_level # 0 /\ Included(current_level) /\ ~AllConverged
  /\ mg_count' = mg_count + 1
  /\ subcount' = subcount + 1
  /\ mg_pc' \in RunsAway
  /\ UNCHANGED <<trivars, auxvars, pcrvars, cachevars, setupvars, build, predict_exit, max_cycle, max_level,
                 cyclecount, cycle_eta, current_level, down, myproc, converged,
                 unsynced, lastcheck, peak>>

\* Only one level: subcount = 0.
MGOneLevel ==
  /\ mg_pc = "advance"
  /\ ~(subcount + 1 < max_cycle)
  /\ ~(AllConverged /\ current_level = 0)
  /\ down /\ ~(max_level > 0)
  /\ mg_count' = mg_count + 1
  /\ subcount' = 0
  /\ mg_pc' = AfterStep
  /\ UNCHANGED <<trivars, auxvars, pcrvars, cachevars, setupvars, build, predict_exit, max_cycle, max_level,
                 cyclecount, cycle_eta, current_level, down, myproc, converged,
                 unsynced, lastcheck, peak>>

\* count > maxits: is_diagonally_dominant on the coarsest level, the
\* reduction of the verdict over the ranks, and the failure.
MGBudgetThrow ==
  /\ mg_pc = "budget"
  /\ mg_pc' \in Exchange("budget_too_low") \cup Exchange("not_guaranteed")
  /\ UNCHANGED <<trivars, auxvars, pcrvars, cachevars, setupvars, build, predict_exit, max_cycle, max_level, mg_count,
                 subcount, cyclecount, cycle_eta, current_level, down, myproc,
                 converged, unsynced, lastcheck, peak>>

NextMG ==
  \/ MGInitLevels
  \/ MGSweep
  \/ MGCycle
  \/ MGStay
  \/ MGRefine
  \/ MGCoarsen
  \/ MGCoarsenResidual
  \/ MGOneLevel
  \/ MGBudgetThrow

SpecMG == InitMG /\ [][NextMG]_vars

(***************************************************************************)
(* One LaplaceParallelTri object (the revision at lines 1018-1890) over    *)
(* several solve() calls and resets, as seen on one rank.  A stored        *)
(* quantity is modelled by the number of the solve() call that computed    *)
(* it.  The iteration of a mode is summarised by its two ends: the loop is *)
(* left by `break`, or the budget failure is raised and leaves solve().    *)
(***************************************************************************)
InitCache ==
  /\ ver = "v3"
  /\ nproc = 1
  /\ maxits = 0
  /\ RanksInit(nproc)
  /\ MGIdle
  /\ SetupIdle
  /\ use_previous \in BOOLEAN
  /\ first_call_yk = [y \in Slices |-> [m \in Modes |-> TRUE]]
  /\ guardVector = [y \in Slices |-> [m \in Modes |-> 0]]
  /\ x0saved = [y \in Slices |-> [m \in Modes |-> 0]]
  /\ nsolve = 0
  /\ lastreset = 0
  /\ c_pc = "idle"
  /\ jy = 0
  /\ ckz = 0
  /\ store_coefficients = TRUE
  /\ start = <<"none", 0>>
  /\ computed = FALSE
  /\ done = [y \in Slices |-> [m \in Modes |-> 0]]
  /\ ncomp = [y \in Slices |-> [m \in Modes |-> 0]]
  /\ PcrIdle
  /\ AuxIdle

\* Variant: the reset leaves first_call as it is.
FirstCallAfterReset_Kept(f) == f

\* first_call after resetSolver.
FirstCallAfterReset(f) == [y \in Slices |-> [m \in Modes |-> TRUE]]

\* resetSolver(), between two solves (a second reset in a row changes nothing).
CacheReset ==
  /\ c_pc = "idle"
  /\ lastreset < nsolve
  /\ x0saved' = [y \in Slices |-> [m \in Modes |-> 0]]
  /\ first_call_yk' = FirstCallAfterReset(first_call_yk)
  /\ lastreset' = nsolve
  /\ ncomp' = [y \in Slices |-> [m \in Modes |-> 0]]
  /\ UNCHANGED <<trivars, auxvars, pcrvars, mgvars, setupvars, use_previous, guardVector, nsolve, c_pc, jy,
                 ckz, store_coefficients, start, computed, done>>

\* solve(b, x0) is called for y-slice y; store_coefficients follows from the
\* boundary flags of the call.
CacheSolveBegin ==
  /\ c_pc = "idle"
  /\ nsolve < MaxSolves
  /\ nsolve' = nsolve + 1
  /\ jy' \in Slices
  /\ store_coefficients' \in BOOLEAN
  /\ ckz' = 0
  /\ c_pc' = "mode"
  /\ start' = <<"none", 0>>
  /\ computed' = FALSE
  /\ UNCHANGED <<trivars, auxvars, pcrvars, mgvars, setupvars, use_previous, first_call_yk, guardVector,
                 x0saved, lastreset, done, ncomp>>

\* Variant: the guard vectors are computed in every solve.
ComputeGuards_Always(f, st) == TRUE

\* Whether the guard vectors and al, bl, au, bu are computed in this solve.
ComputeGuards(f, st) == f \/ ~st

\* Whether get_initial_guess is called in this solve.
TakeGuess(f, up) == f \/ ~up

\* Body of the loop over kz up to the while loop: xk1d from x0saved, guard
\* vectors and coefficients if not stored, initial guess if not reused.
CacheModeSetup ==
  /\ c_pc = "mode"
  /\ LET f == first_call_yk[jy][ckz]
         c == ComputeGuards(f, store_coefficients)
     IN /\ computed' = c
        /\ guardVector' = IF c THEN [guardVector EXCEPT ![jy][ckz] = nsolve]
                          ELSE guardVector
        /\ ncomp' = IF ~c THEN ncomp
                    ELSE IF store_coefficients
                         THEN [ncomp EXCEPT ![jy][ckz] = @ + 1]
                    ELSE [ncomp EXCEPT ![jy][ckz] = 0]
        /\ start' = IF TakeGuess(f, use_previous) THEN <<"guess", nsolve>>
                    ELSE <<"saved", x0saved[jy][ckz]>>
  /\ c_pc' = "loop"
  /\ UNCHANGED <<trivars, auxvars, pcrvars, mgvars, setupvars, use_previous, first_call_yk, x0saved, nsolve,
                 lastreset, jy, ckz, store_coefficients, done>>

\* Variant: first_call is left as it is after the mode.
FirstCallAfterMode_Kept(f) == f

\* first_call(jy, kz) = false.
FirstCallAfterMode(f) == FALSE

\* The loop of the mode is left by `break`: reconstruction, first_call(jy, kz)
\* cleared, next mode or return.
CacheModeDone ==
  /\ c_pc = "loop"
  /\ first_call_yk' = [first_call_yk EXCEPT ![jy][ckz] = FirstCallAfterMode(@)]
  /\ done' = [done EXCEPT ![jy][ckz] = nsolve]
  /\ IF ckz = MaxMode
     THEN c_pc' = "idle" /\ ckz' = ckz
     ELSE c_pc' = "mode" /\ ckz' = ckz + 1
  /\ UNCHANGED <<trivars, auxvars, pcrvars, mgvars, setupvars, use_previous, guardVector, x0saved, nsolve,
                 lastreset, jy, store_coefficients, start, computed, ncomp>>

\* The budget failure is raised in the loop of the mode and leaves solve().
CacheModeRaise ==
  /\ c_pc = "loop"
  /\ c_pc' = "idle"
  /\ UNCHANGED <<trivars, auxvars, pcrvars, mgvars, setupvars, use_previous, first_call_yk, guardVector,
                 x0saved, nsolve, lastreset, jy, ckz, store_coefficients, start,
                 computed, done, ncomp>>

NextCache ==
  \/ CacheReset
  \/ CacheSolveBegin
  \/ CacheModeSetup
  \/ CacheModeDone
  \/ CacheModeRaise

SpecCache == InitCache /\ [][NextCache]_vars

(***************************************************************************)
(* Positions of a rank.                                                    *)
(***************************************************************************)
LoopPcs == {"loop_top", "comm_in", "comm_in_flag_wait", "comm_in_val_wait",
            "comm_out", "comm_out_flag_wait", "comm_out_val_wait", "break_check"}

\* Rank q is blocked in a receive from rank p.
WaitsOn(q, p) ==
  \/ p = q - 1 /\ pc[q] \in {"guess_in_wait", "comm_in_flag_wait", "comm_in_val_wait"}
  \/ p = q + 1 /\ pc[q] \in {"guess_out_wait", "comm_out_flag_wait", "comm_out_val_wait"}

Raised(p) == outcome[p] \in {"budget_too_low", "not_guaranteed"}

(***************************************************************************)
(* C1.  A rank whose iteration count has gone past maxits ends its solve   *)
(* by raising the failure: it never carries on to return a solution.       *)
(* Violated by the revision that leaves the loop with `break`.             *)
(***************************************************************************)
C1_BudgetExceededRaises ==
  \A p \in Procs : exceeded[p] => pc[p] = "raised"

(***************************************************************************)
(* C2.  The classification "budget too low" is raised only for a system    *)
(* that is diagonally dominant: no rank raises it while the rows of some   *)
(* rank violate dominance.                                                 *)
(***************************************************************************)
C2_TooLowOnlyIfDominant ==
  \A p \in Procs : outcome[p] = "budget_too_low" =>
    \A q \in Procs : is_diagonally_dominant(rows[q])

(***************************************************************************)
(* C3.  The verdict is global: any two ranks that raise the budget failure *)
(* raise it with the same classification.                                  *)
(***************************************************************************)
C3_SameClassification ==
  \A p, q \in Procs : Raised(p) /\ Raised(q) => outcome[p] = outcome[q]

(***************************************************************************)
(* C4.  When a rank has raised the budget failure, no peer is blocked in a *)
(* receive from that rank with nothing left to receive.                    *)
(***************************************************************************)
C4_NoPeerLeftWaiting ==
  \A p, q \in Procs : pc[p] = "raised" /\ WaitsOn(q, p) => CanRecv(chan, p, q)

(***************************************************************************)
(* C5.  Every receive is paired with a send: a rank blocked in a receive   *)
(* either has the message waiting, or its neighbour is still on its way to *)
(* the matching send (it has not ended its solve and is not past the       *)
(* receiver's mode).                                                       *)
(***************************************************************************)
C5_ReceivesPaired ==
  \A q \in Procs : \A p \in Procs :
    WaitsOn(q, p) /\ ~CanRecv(chan, p, q) =>
      /\ pc[p] \notin {"raised", "returned"}
      /\ kz[p] <= kz[q]

\* Rank q counts as converged for rank p when p has been told so, when q has
\* both its own flags set, or when q is done with p's mode.
Converged(p, q) ==
  \/ q = p - 1 /\ neighbour_in[p]
  \/ q = p + 1 /\ neighbour_out[p]
  \/ kz[q] = kz[p] /\ pc[q] \in LoopPcs \cup {"after_loop"} /\ self_in[q] /\ self_out[q]
  \/ kz[q] > kz[p]
  \/ pc[q] = "returned"

(***************************************************************************)
(* C6 (as stated).  A rank that has left the loop of a mode has converged  *)
(* itself and so has each of its x-neighbours.                             *)
(***************************************************************************)
C6_ExitOnlyAfterNeighbours ==
  \A p \in Procs : pc[p] = "after_loop" =>
    /\ self_in[p] /\ self_out[p]
    /\ \A q \in Procs : (q = p - 1 \/ q = p + 1) => Converged(p, q)

(***************************************************************************)
(* C6 (amended).  A rank that has left the loop of a mode has both its own *)
(* flags set, and either it passed its own error test in its last          *)
(* iteration or each of its sides is a boundary or a neighbour that        *)
(* reported convergence.                                                   *)
(***************************************************************************)
C6_ExitWhenOwnFlagsSet ==
  \A p \in Procs : pc[p] = "after_loop" =>
    /\ self_in[p] /\ self_out[p]
    /\ selfErr[p] \/ (neighbour_in[p] /\ neighbour_out[p])

\* A rank left the loop on its own test while a neighbour had not converged.
C6_Witness ==
  \E p \in Procs : \E q \in Procs :
    /\ pc[p] = "after_loop" /\ selfErr[p]
    /\ q = p + 1 \/ q = p - 1
    /\ ~Converged(p, q)

\* Iteration in which the value held in halo cell i of rank q was delivered:
\* the ranks iterate in step, so it is the iteration stamped on the value.
DeliveredIn(q, i) == xloc[q][i][4]

(***************************************************************************)
(* C7 (as stated).  In every iteration that a rank completes without       *)
(* having met its own tolerance, the edge value of each x-neighbour has    *)
(* been delivered to it in that iteration (relayed by a converged          *)
(* neighbour if need be).                                                  *)
(***************************************************************************)
C7_RelayedEveryIteration ==
  \A q \in Procs : pc[q] = "break_check" /\ ~selfErr[q] =>
    /\ ~firstX(q) => DeliveredIn(q, 0) = count[q]
    /\ ~lastX(q) => DeliveredIn(q, 3) = count[q]

\* The side of rank q towards rank p is frozen: q was told that p converged
\* and holds the value that came with that message.
FrozenSide(q, p) ==
  /\ pc[q] \in LoopPcs
  /\ \/ p = q - 1 /\ ~firstX(q) /\ neighbour_in[q] /\ pc[q] # "comm_in_val_wait"
     \/ p = q + 1 /\ ~lastX(q) /\ neighbour_out[q] /\ pc[q] # "comm_out_val_wait"

\* Halo cell of rank q on the side of rank p, and the edge of p facing q.
HaloOf(q, p) == IF p = q - 1 THEN 0 ELSE 3
EdgeOf(p, q) == IF q = p + 1 THEN 2 ELSE 1

(***************************************************************************)
(* C7 (amended).  A converged rank sends its flag and final edge value     *)
(* once and then leaves the loop: on a frozen side the neighbour holds     *)
(* that rank's final edge value of the mode, the converged rank has both   *)
(* its flags set and computes no further value for the mode, and no        *)
(* further message of the mode is in flight from it.                       *)
(***************************************************************************)
C7_FinalValueHeldFrozen ==
  \A q \in Procs : \A p \in Procs : FrozenSide(q, p) =>
    /\ xloc[q][HaloOf(q, p)][1] = p
    /\ xloc[q][HaloOf(q, p)][2] = EdgeOf(p, q)
    /\ xloc[q][HaloOf(q, p)][3] = kz[q]
    /\ DeliveredIn(q, HaloOf(q, p)) <= count[q]
    /\ kz[p] >= kz[q]
    /\ kz[p] = kz[q] =>
         /\ pc[p] \in {"comm_out", "comm_out_flag_wait", "comm_out_val_wait",
                       "comm_in_val_wait", "break_check", "after_loop", "returned"}
         /\ self_in[p] /\ self_out[p]
         /\ xloc[p][EdgeOf(p, q)] = xloc[q][HaloOf(q, p)]
    /\ \A i \in 1 .. Len(chan[<<p, q>>]) : chan[<<p, q>>][i].val[3] > kz[q]

\* A rank iterates again on a value frozen in an earlier iteration.
C7_Witness ==
  \E q \in Procs : \E p \in Procs :
    /\ FrozenSide(q, p)
    /\ pc[q] = "break_check"
    /\ DeliveredIn(q, HaloOf(q, p)) < count[q]
    /\ kz[p] > kz[q]

\* Rank q has computed the update of iteration count[q] and has not yet
\* copied xloc to xloclast.
Updated(q) == pc[q] \in LoopPcs \ {"loop_top"}

\* Rank q has been told that its neighbour p converged.
NeighbourFlag(q, p) == IF p = q - 1 THEN neighbour_in[q] ELSE neighbour_out[q]

PastCheck == cyclecount >= 1 /\ mg_pc # "total_residual"

VStep ==
  /\ max_level >= 0 => current_level' \in 0 .. max_level
  /\ (down' /\ max_level > 0) => current_level' < max_level
  /\ ~down' => current_level' > 0
  /\ current_level' # current_level =>
       \/ down /\ current_level' = current_level + 1
       \/ ~down /\ current_level' = current_level - 1
  /\ current_level' = current_level => down' = down
  /\ down' # down => current_level' \in {0, max_level}

GlobalNxs == {8, 10, 12}

\* Limits of int.
IntMax == 2147483647
IntMin == -IntMax - 1

\* int(pow(2, l)): the conversion is undefined once 2^l does not fit an int;
\* the builds give the smallest or the largest int.
IntPow2(l) == IF l <= 30 THEN {2 ^ l} ELSE {IntMin, IntMax}

\* a % b of C for a >= 0 and b # 0.
CRem(a, b) ==
  IF b = IntMin THEN a
  ELSE IF b < 0 THEN a % (-b)
  ELSE a % b

\* included on a coarse level, for the rank p, 2^l converted to v.
LevelIncluded_Odd(p, v, last) == (CRem(p, v) # 0) \/ last
LevelIncluded(p, v, last) == (CRem(p, v) = 0) \/ last

\* The neighbours of rank p on a level: on level 0 myproc - 1 and myproc + 1;
\* on a coarse level, with v = int(pow(2, l)), myproc - v (+ 1 on the last
\* rank) and myproc + v, or nproc - 1 if that is smaller.
proc_in(p, l, v, last) ==
  IF l = 0 THEN p - 1 ELSE p - v + (IF last THEN 1 ELSE 0)
proc_out(p, l, v, np) ==
  IF l = 0 THEN p + 1 ELSE IF p + v < np - 1 THEN p + v ELSE np - 1

\* The exchange of the reduced coefficients on level l reaches the ranks that
\* take part in it: proc_in = myproc - 2^l (+ 1 on the last rank) and
\* proc_out = min(myproc + 2^l, nproc - 1) are the neighbours on the level
\* only on the row yproc = 0 and while 2^l <= nproc.
GoodPartners(l) == yproc = 0 /\ l <= 30 /\ 2 ^ l <= nproc

\* Outcomes of the two MPI_Sendrecv of Level::init on level l.
LevelExchange(l, inc, next) ==
  IF ~inc \/ nproc = 1 THEN {next}
  ELSE IF GoodPartners(l) THEN Exchange(next)
  ELSE {"blocked", "crashed"} \cup (IF xproc = nproc - 1 THEN {next} ELSE {})

InitSetup ==
  /\ ver = "mg"
  /\ nproc \in 1 .. MaxNXPE
  /\ maxits = 0
  /\ RanksInit(nproc)
  /\ CacheIdle
  /\ build = "unchecked"
  /\ predict_exit = FALSE
  /\ max_cycle = 0
  /\ mg_pc = "idle"
  /\ mg_count = 0
  /\ subcount = 0
  /\ cyclecount = 0
  /\ cycle_eta = 0
  /\ current_level = 0
  /\ down = TRUE
  /\ myproc = 0
  /\ converged = [m \in Modes |-> FALSE]
  /\ unsynced = 0
  /\ lastcheck = 0
  /\ peak = 0
  /\ solver \in {"pcr", "1dmg"}
  /\ max_level \in (IF solver = "1dmg" THEN -1 .. MaxChain ELSE {0})
  /\ nype \in 1 .. MaxNYPE
  /\ ngx \in GlobalNxs
  /\ xproc \in 0 .. nproc - 1
  /\ yproc \in 0 .. nype - 1
  /\ s_pc = "new"
  /\ lv_l = 0
  /\ levels = [l \in 0 .. MaxChain |-> NoLevel]
  /\ PcrIdle
  /\ AuxIdle

\* LaplacePCR::LaplacePCR
ConstructPCR ==
  /\ s_pc = "new"
  /\ solver = "pcr"
  /\ s_pc' = IF ~is_pow2(nproc) THEN "rejected"
             ELSE IF nype # 1 THEN "rejected"
             ELSE IF xproc = 0 /\ xproc = nproc - 1 THEN "rejected"
             ELSE IF ~is_pow2(ngx - 4) THEN "rejected"
             ELSE "constructed"
  /\ UNCHANGED <<trivars, auxvars, pcrvars, mgvars, cachevars, solver, nype, ngx, xproc, yproc,
                 lv_l, levels>>

\* Laplace1DMG::Laplace1DMG
Construct1DMG ==
  /\ s_pc = "new"
  /\ solver = "1dmg"
  /\ s_pc' = IF ~is_pow2(ngx) THEN "rejected"
             ELSE IF ~is_pow2(nproc) THEN "rejected"
             ELSE "constructed"
  /\ UNCHANGED <<trivars, auxvars, pcrvars, mgvars, cachevars, solver, nype, ngx, xproc, yproc,
                 lv_l, levels>>

\* LaplacePCR::solve is entered.
SolvePCR ==
  /\ s_pc = "constructed"
  /\ solver = "pcr"
  /\ s_pc' = "solving"
  /\ UNCHANGED <<trivars, auxvars, pcrvars, mgvars, cachevars, solver, nype, ngx, xproc, yproc,
                 lv_l, levels>>

\* Laplace1DMG::solve up to levels[0].init: myproc is set; first_call[jy] is
\* set, levels has max_level + 1 elements.
Solve1DMG ==
  /\ s_pc = "constructed"
  /\ solver = "1dmg"
  /\ myproc' = yproc * nproc + xproc
  /\ IF max_level < 0
     THEN s_pc' = "crashed" /\ UNCHANGED <<lv_l, levels>>
     ELSE /\ levels' = [levels EXCEPT ![0] = [st |-> "init", from |-> -1,
                                             included |-> TRUE,
                                             included_up |-> FALSE]]
          /\ lv_l' = 1
          /\ s_pc' = IF max_level > 0 THEN "coarse" ELSE "solving"
  /\ UNCHANGED <<trivars, auxvars, pcrvars, cachevars, solver, nype, ngx, xproc, yproc, build,
                 predict_exit, max_cycle, max_level, mg_pc, mg_count, subcount,
                 cyclecount, cycle_eta, current_level, down, converged,
                 unsynced, lastcheck, peak>>

\* The level handed to Level::init as the level above level l.
LevelAbove(l) == l - 1

\* levels[l].init(*this, levels[l - 1], l) for l = lv_l.
LevelInitCoarse ==
  /\ s_pc = "coarse"
  /\ lv_l <= max_level
  /\ \E v \in IntPow2(lv_l) :
       LET lup == levels[LevelAbove(lv_l)]
           inc == LevelIncluded(myproc, v, xproc = nproc - 1)
           next == IF lv_l = max_level THEN "solving" ELSE "coarse"
       IN /\ levels' = [levels EXCEPT ![lv_l] = [st |-> "init",
                                                 from |-> LevelAbove(lv_l),
                                                 included |-> inc,
                                                 included_up |-> lup.included]]
          /\ s_pc' \in LevelExchange(lv_l, inc, next)
  /\ lv_l' = lv_l + 1
  /\ UNCHANGED <<trivars, auxvars, pcrvars, mgvars, cachevars, solver, nype, ngx, xproc, yproc>>

NextSetup ==
  \/ ConstructPCR
  \/ Construct1DMG
  \/ SolvePCR
  \/ Solve1DMG
  \/ LevelInitCoarse

SpecSetup == InitSetup /\ [][NextSetup]_vars


(***************************************************************************)
(* Parallel cyclic reduction: LaplacePCR::cr_pcr_solver on all ranks.      *)
(* An action runs a rank up to its next MPI_Wait: it completes the waits   *)
(* of a round, eliminates, and posts the receives and sends of the next    *)
(* round.                                                                  *)
(***************************************************************************)

\* int(log2(n)) for n >= 1.
Log2(n) == CHOOSE k \in 0 .. n : 2 ^ k <= n /\ n < 2 ^ (k + 1)

PcrRanks == 0 .. nproc - 1

\* Number of rounds of the loop of pcr_forward_single_row: nlevel - 1.
PcrLevels_Linear(np) == np - 1
PcrLevels(np) == Log2(np) - 1

\* Number of rounds of the loop of cr_forward_multiple_row: nlevel.
CrLevels(n) == Log2(n)

\* The rank takes the first branch of a round: (myrank_level + 1) % 2 == 0.
UpperOfPair(r, d) == ((r \div d) + 1) % 2 = 0

\* Tags of the receive from and of the send to the partner at myrank + d
\* (up = TRUE) or myrank - d in a round of pcr_forward_single_row.
PcrRecvTag(first, up) ==
  IF first THEN (IF up THEN 202 ELSE 200) ELSE (IF up THEN 201 ELSE 203)
PcrSendTag_Same(first, up) ==
  IF first THEN (IF up THEN 202 ELSE 200) ELSE (IF up THEN 201 ELSE 203)
PcrSendTag(first, up) ==
  IF first THEN (IF up THEN 203 ELSE 201) ELSE (IF up THEN 200 ELSE 202)

\* The requests <<partner, receive tag, send tag>> of rank r at position p;
\* the send tag is -1 where no send is posted, and so for the receive tag.
PcrRequests(r, p, l) ==
  IF p = "cr_wait" THEN
    (IF r < nproc - 1 THEN {<<r + 1, 0, -1>>} ELSE {})
    \cup (IF r > 0 THEN {<<r - 1, -1, 0>>} ELSE {})
  ELSE IF p = "pcr_wait" THEN
    LET d == 2 ^ l
        f == UpperOfPair(r, d)
    IN (IF r + d < nproc
        THEN {<<r + d, PcrRecvTag(f, TRUE), PcrSendTag(f, TRUE)>>} ELSE {})
       \cup (IF r - d >= 0
             THEN {<<r - d, PcrRecvTag(f, FALSE), PcrSendTag(f, FALSE)>>}
             ELSE {})
  ELSE IF p = "fin_wait" THEN
    LET nhprocs == nproc \div 2
    IN IF r < nhprocs THEN {<<r + nhprocs, 300, 301>>}
       ELSE {<<r - nhprocs, 301, 300>>}
  ELSE IF p = "bk_wait" THEN
    (IF r > 0 THEN {<<r - 1, 100, -1>>} ELSE {})
    \cup (IF r < nproc - 1 THEN {<<r + 1, -1, 100>>} ELSE {})
  ELSE {}

\* Messages between two ranks with one tag are matched in the order they
\* are posted: the one of round l matches the receive of round l.
RecvsOf(r, p, l) ==
  {<<r, q[1], q[2], l>> : q \in {x \in PcrRequests(r, p, l) : x[2] # -1}}
SendsOf(r, p, l) ==
  {<<r, q[1], q[3], l>> : q \in {x \in PcrRequests(r, p, l) : x[3] # -1}}

\* The send that matches a receive and the receive that matches a send.
Mirror(k) == <<k[2], k[1], k[3], k[4]>>

\* MPI_Wait on a send returns: the library has buffered the message, or the
\* partner has posted the receive for it.
SendDone(k) ==
  eager \/ k \notin sends \/ Mirror(k) \in recvs

\* The round that follows the rounds 0 .. l-1 of a phase: the MPI_Wait the
\* rank stops at and the loop counter.
AfterBackward == <<"done", 0>>
AfterFinal == <<"bk_wait", 0>>
AfterPcr(l) ==
  IF l < PcrLevels(nproc) THEN <<"pcr_wait", l>> ELSE <<"fin_wait", 0>>
AfterCr(l) ==
  IF l < CrLevels(n_mpi) THEN <<"cr_wait", l>> ELSE AfterPcr(0)

InitPCR ==
  /\ ver = "pcr"
  /\ nproc \in {n \in 2 .. MaxPcrProc : is_pow2(n)}
  /\ maxits = 0
  /\ RanksInit(nproc)
  /\ MGIdle
  /\ CacheIdle
  /\ SetupIdle
  /\ n_mpi \in {n \in 1 .. MaxRows : is_pow2(n) /\ n * nproc <= MaxRows}
  /\ eager \in BOOLEAN
  /\ det0 \in BOOLEAN
  /\ ppc = [r \in PcrRanks |-> "start"]
  /\ pl = [r \in PcrRanks |-> 0]
  /\ sends = {}
  /\ recvs = {}
  /\ prounds = [r \in PcrRanks |-> 0]
  /\ pstrides = [r \in PcrRanks |-> <<>>]
  /\ pcr_x = [r \in PcrRanks |-> "none"]
  /\ AuxIdle

\* cr_pcr_solver up to the first MPI_Wait: the receives and sends of the
\* first round are posted.
PcrBegin(r) ==
  /\ ppc[r] = "start"
  /\ LET nxt == AfterCr(0)
     IN /\ ppc' = [ppc EXCEPT ![r] = nxt[1]]
        /\ pl' = [pl EXCEPT ![r] = nxt[2]]
        /\ recvs' = recvs \cup RecvsOf(r, nxt[1], nxt[2])
        /\ sends' = sends \cup SendsOf(r, nxt[1], nxt[2])
  /\ UNCHANGED <<trivars, auxvars, mgvars, cachevars, setupvars, n_mpi, eager, det0,
                 prounds, pstrides, pcr_x>>

\* The MPI_Wait calls of one round, the elimination that follows them and
\* the MPI_Irecv and MPI_Isend calls of the next round.
PcrWait(r) ==
  /\ ppc[r] \in {"cr_wait", "pcr_wait", "fin_wait", "bk_wait"}
  /\ \A k \in RecvsOf(r, ppc[r], pl[r]) : Mirror(k) \in sends
  /\ \A k \in SendsOf(r, ppc[r], pl[r]) : SendDone(k)
  /\ prounds' = [prounds EXCEPT ![r] = @ + 1]
  /\ LET nxt == CASE ppc[r] = "cr_wait" -> AfterCr(pl[r] + 1)
                  [] ppc[r] = "pcr_wait" -> AfterPcr(pl[r] + 1)
                  [] ppc[r] = "fin_wait" -> AfterFinal
                  [] ppc[r] = "bk_wait" -> AfterBackward
     IN /\ ppc' = [ppc EXCEPT ![r] = nxt[1]]
        /\ pl' = [pl EXCEPT ![r] = nxt[2]]
        /\ sends' = (sends \ {Mirror(k) : k \in RecvsOf(r, ppc[r], pl[r])})
                      \cup SendsOf(r, nxt[1], nxt[2])
        /\ recvs' = (recvs \ RecvsOf(r, ppc[r], pl[r]))
                      \cup RecvsOf(r, nxt[1], nxt[2])
  /\ pstrides' = [pstrides EXCEPT ![r] =
                    IF ppc[r] = "pcr_wait" THEN Append(@, 2 ^ pl[r])
                    ELSE IF ppc[r] = "fin_wait" THEN Append(@, nproc \div 2)
                    ELSE @]
  /\ pcr_x' = [pcr_x EXCEPT ![r] =
                 IF ppc[r] = "fin_wait"
                 THEN (IF det0 THEN "nonfinite" ELSE "finite")
                 ELSE @]
  /\ UNCHANGED <<trivars, auxvars, mgvars, cachevars, setupvars, n_mpi, eager, det0>>

NextPCR == \E r \in PcrRanks : PcrBegin(r) \/ PcrWait(r)

SpecPCR == InitPCR /\ [][NextPCR]_vars

\* A rank that can go on does so.
SpecPCRFair == SpecPCR /\ WF_vars(NextPCR)

\* A solve made after the last reset has completed mode m of y-slice y.
DoneSince(y, m) == done[y][m] > lastreset

C16_ComputedOnce ==
  \A y \in Slices : \A m \in Modes : ncomp[y][m] <= 1

(***************************************************************************)
(* C16 (amended).  A solve that stores coefficients computes the guard     *)
(* vectors of a (y-slice, mode) exactly when no solve since the last reset *)
(* has completed that mode (a solve that raised the failure in the mode or *)
(* before it leaves first_call set); otherwise it uses the values          *)
(* an earlier solve since the reset has stored.                            *)
(***************************************************************************)
C16_ComputedUntilCompleted ==
  (c_pc = "loop" /\ store_coefficients) =>
    /\ computed <=> ~DoneSince(jy, ckz)
    /\ ~computed => /\ guardVector[jy][ckz] > lastreset
                    /\ guardVector[jy][ckz] < nsolve

\* The guard vectors were computed by two solves, the first of which raised
\* the failure, and a third solve uses the stored values.
C16_Witness ==
  /\ c_pc = "loop"
  /\ store_coefficients
  /\ ~computed
  /\ ncomp[jy][ckz] = 2

(***************************************************************************)
(* C17.  With use_previous_timestep set, the first solve of a              *)
(* (y-slice, mode) starts from the initial guess and every later solve of  *)
(* it, until a reset, starts from the solution of the last solve that      *)
(* completed the mode.  Violated: the solution is never stored, the later  *)
(* solves start from the cleared x0saved.                                  *)
(***************************************************************************)
C17_WarmStartFromPrevious ==
  (c_pc = "loop" /\ use_previous) =>
    IF DoneSince(jy, ckz) THEN start = <<"saved", done[jy][ckz]>>
    ELSE start = <<"guess", nsolve>>

\* The levels Level::init has been called on.
Inited == {l \in 0 .. MaxChain : levels[l].st = "init"}

(***************************************************************************)
(* C19.  The Levels form a linear chain: level 0 is derived from no level, *)
(* level l >= 1 is derived from level l-1 alone, which has been            *)
(* initialised before it, and a rank included at level l is included at    *)
(* level l-1.                                                              *)
(***************************************************************************)
C19_LinearChain ==
  \A l \in Inited :
    IF l = 0 THEN levels[l].from = -1 /\ levels[l].included
    ELSE /\ levels[l].from = l - 1
         /\ (l - 1) \in Inited
         /\ levels[l].included_up = levels[l - 1].included
         /\ levels[l].included => levels[l - 1].included

\* A rank of four that is included at levels 0 and 1 and not at level 2.
C19_Witness ==
  /\ s_pc = "solving"
  /\ solver = "1dmg"
  /\ 2 \in Inited
  /\ levels[1].included
  /\ ~levels[2].included

(***************************************************************************)
(* C20.  A solve runs only on a configuration that is valid: one rank      *)
(* along y, and for the cyclic-reduction solver a power of two of ranks    *)
(* along x.  Violated: Laplace1DMG is constructed and solves with several  *)
(* ranks along y.                                                          *)
(***************************************************************************)
C20_InvalidRejected ==
  s_pc \in {"constructed", "coarse", "solving", "blocked", "crashed"} =>
    /\ nype = 1
    /\ solver = "pcr" => is_pow2(nproc)

PcrAllDone == \A r \in PcrRanks : ppc[r] = "done"

(***************************************************************************)
(* C21.  Cyclic reduction ends after a number of communication rounds      *)
(* fixed by the number of ranks P and the rows per rank n alone:           *)
(* log2(n) + log2(P) + 1 on every rank, whatever the matrix values (a      *)
(* singular last step included); the distance to the partner rank doubles *)
(* from 1 in the rank-wise rounds and is P/2 in the last one.              *)
(***************************************************************************)
C21_BoundedRounds ==
  \A r \in PcrRanks :
    /\ 2 ^ prounds[r] <= 2 * n_mpi * nproc
    /\ \A i \in 1 .. Len(pstrides[r]) : pstrides[r][i] = 2 ^ (i - 1)
    /\ ppc[r] = "done" => /\ 2 ^ prounds[r] = 2 * n_mpi * nproc
                          /\ 2 ^ Len(pstrides[r]) = nproc

\* Eight ranks are done: two rank-wise rounds at distances 1 and 2, and the
\* last step at distance 4, on a singular system.
C21_Witness ==
  /\ PcrAllDone
  /\ nproc = 8
  /\ det0
  /\ pstrides[0] = <<1, 2, 4>>

(***************************************************************************)
(* C22.  Every receive posted is matched by a send of the partner with the *)
(* same tag, so that every rank gets through all its waits: all ranks end, *)
(* and no send or receive is left unmatched.                               *)
(***************************************************************************)
C22_NoRankWaitsForEver ==
  <>(PcrAllDone /\ sends = {} /\ recvs = {})

\* All ranks are done with a library that does not buffer sends.
C22_Witness ==
  /\ PcrAllDone
  /\ ~eager
  /\ nproc = 4
  /\ sends = {}

(***************************************************************************)
(* The mean iteration count of one LaplaceParallelTri object, kept over    *)
(* the solves of its modes and its resets.  The BoutReal mean is modelled  *)
(* exactly, as a fraction.  Laplace1DMG has the same update after its      *)
(* loop and the same reset.                                                *)
(***************************************************************************)

InitMean ==
  /\ ver = "v3"
  /\ InitCommon(1)

\* End of the iteration of a mode with `count` iterations, for every mode of
\* every solve() call: ++ncalls and
\* ipt_mean_its = (ipt_mean_its * (ncalls - 1) + count) / ncalls.
MeanSolve ==
  \E c \in 0 .. maxits :
    /\ ncalls < MaxSolves * (MaxMode + 1)
    /\ ncalls' = ncalls + 1
    /\ ipt_mean_its' = <<ipt_mean_its[1] * (ncalls' - 1) + c * ipt_mean_its[2],
                         ipt_mean_its[2] * ncalls'>>
    /\ since' = <<since[1] + c, since[2] + 1>>
    /\ UNCHANGED <<trivars, mgvars, cachevars, setupvars, pcrvars,
                   initialisedGlobal, globalInstance, made, got, recvars, ranks,
                 libvars>>

\* resetMeanIterations, also called by resetSolver: ipt_mean_its = 0.
MeanReset ==
  /\ ipt_mean_its' = <<0, 1>>
  /\ since' = <<0, 0>>
  /\ UNCHANGED <<trivars, mgvars, cachevars, setupvars, pcrvars, ncalls,
                 initialisedGlobal, globalInstance, made, got, recvars, ranks,
                 libvars>>

SpecMean == InitMean /\ [][MeanSolve \/ MeanReset]_vars

(***************************************************************************)
(* GlobalIndexer's global instance over calls of getInstance,              *)
(* recreateGlobalInstance and cleanup.  A GlobalIndexer is named by the    *)
(* number of its construction; the null pointer is 0.                      *)
(***************************************************************************)

InitIndexer ==
  /\ ver = "v3"
  /\ nproc = 1
  /\ maxits = 0
  /\ RanksInit(1)
  /\ OthersIdle

\* The meshes getInstance is called with: bout::globals::mesh or another one.
Meshes == {"global", "other"}

\* GlobalIndexer::getInstance(localmesh).
GetInstance ==
  \E localmesh \in Meshes :
    /\ IF localmesh = "global"
       THEN IF ~initialisedGlobal
            THEN /\ made < MaxInstances
                 /\ made' = made + 1
                 /\ globalInstance' = made + 1
                 /\ initialisedGlobal' = TRUE
                 /\ got' = <<localmesh, made + 1>>
            ELSE /\ got' = <<localmesh, globalInstance>>
                 /\ UNCHANGED <<made, globalInstance, initialisedGlobal>>
       ELSE /\ made < MaxInstances
            /\ made' = made + 1
            /\ got' = <<localmesh, made + 1>>
            /\ UNCHANGED <<globalInstance, initialisedGlobal>>
    /\ UNCHANGED <<trivars, mgvars, cachevars, setupvars, pcrvars, ncalls,
                   ipt_mean_its, since, recvars, ranks,
                 libvars>>

\* GlobalIndexer::recreateGlobalInstance().
RecreateGlobalInstance ==
  /\ initialisedGlobal' = FALSE
  /\ UNCHANGED <<trivars, mgvars, cachevars, setupvars, pcrvars, ncalls,
                 ipt_mean_its, since, globalInstance, made, got, recvars, ranks,
                 libvars>>

\* GlobalIndexer::cleanup(): globalInstance.reset().
IndexerCleanup ==
  /\ globalInstance' = 0
  /\ UNCHANGED <<trivars, mgvars, cachevars, setupvars, pcrvars, ncalls,
                 ipt_mean_its, since, initialisedGlobal, made, got, recvars, ranks,
                 libvars>>

SpecIndexer ==
  InitIndexer /\ [][GetInstance \/ RecreateGlobalInstance \/ IndexerCleanup]_vars

(***************************************************************************)
(* The reconstruction of a mode's local solution from the converged edge   *)
(* values at the end of LaplaceParallelTri::solve, on a rank with one      *)
(* interior point: ncx = 3, xs = xe = 1, so that xs - 1 = 0 and            *)
(* xe + 1 = 2.  The complex values are modelled by small integers.         *)
(***************************************************************************)

\* The indices 0 .. ncx - 1 of the local arrays.
Cells == 0 .. 2

\* The values the elements of the arrays are drawn from.
Vals == 0 .. 1

\* Variant: the particular solution is added to what xk1d holds.
Reconstruct_Accumulate(prev, mb, ug, lg, last, fX, lX) ==
  [i \in Cells |-> prev[i] + mb[i]
                   + (IF ~lX THEN ug[i] * last[2] ELSE 0)
                   + (IF ~fX THEN lg[i] * last[0] ELSE 0)]

\* xk1d = minvb, += upperGuardVector * xk1dlast[xe+1] unless lastX,
\* += lowerGuardVector * xk1dlast[xs-1] unless firstX.
Reconstruct(prev, mb, ug, lg, last, fX, lX) ==
  [i \in Cells |-> mb[i]
                   + (IF ~lX THEN ug[i] * last[2] ELSE 0)
                   + (IF ~fX THEN lg[i] * last[0] ELSE 0)]

\* The state of a mode when its iteration has ended: xk1d and xk1dlast hold
\* the edge values, copied from xloc and xloclast.
InitRec ==
  /\ ver = "v3"
  /\ nproc = 1
  /\ maxits = 0
  /\ RanksInit(1)
  /\ MGIdle /\ CacheIdle /\ SetupIdle /\ PcrIdle /\ LibIdle
  /\ ncalls = 0
  /\ ipt_mean_its = <<0, 1>>
  /\ since = <<0, 0>>
  /\ initialisedGlobal = FALSE
  /\ globalInstance = 0
  /\ made = 0
  /\ got = <<"none", 0>>
  /\ onFirstX \in BOOLEAN
  /\ onLastX \in BOOLEAN
  /\ minvb \in [Cells -> Vals]
  /\ upperGuardVector \in [Cells -> Vals]
  /\ lowerGuardVector \in [Cells -> Vals]
  /\ xk1dlast \in [Cells -> Vals]
  /\ xk1d = xk1dlast
  /\ nrec = 0
  /\ ranks = <<>>

\* "Now that halo cells are converged, use these to calculate whole solution".
Reconstruction ==
  /\ nrec < 2
  /\ nrec' = nrec + 1
  /\ xk1d' = Reconstruct(xk1d, minvb, upperGuardVector, lowerGuardVector,
                         xk1dlast, onFirstX, onLastX)
  /\ UNCHANGED <<trivars, mgvars, cachevars, setupvars, pcrvars, ncalls,
                 ipt_mean_its, since, initialisedGlobal, globalInstance, made,
                 got, onFirstX, onLastX, minvb, upperGuardVector,
                 lowerGuardVector, xk1dlast, ranks, libvars>>

SpecRec == InitRec /\ [][Reconstruction]_vars

(***************************************************************************)
(* Laplace1DMG::solve on two ranks p < q of the same solve, each followed  *)
(* from one start of the loop body to the next.  The options are the same  *)
(* on every rank.  converged is set by calculate_total_residual only,      *)
(* which no rank reaches, so every mode is unconverged throughout.         *)
(***************************************************************************)

\* The ways one pass of the loop body can end for rank p in state c: at the
\* next start of the loop ("loop"), at the budget failure ("budget"), or
\* inside the pass.
MGIterate(p, c) ==
  LET l == c.current_level
      inc == l = 0 \/ LevelIncluded(p, 2 ^ l, p = nproc - 1)
      swept == IF inc THEN OutOfBounds("swept") ELSE {"swept"}
      cyc == l = 0 /\ c.subcount = max_cycle - 1
      n == c.count + 1
      s == c.subcount + 1
      after == IF n > maxits THEN "budget" ELSE "loop"
      ends(P) == {[c EXCEPT !.pc = e] : e \in P}
      goes(P, d) == {[d EXCEPT !.pc = e, !.count = n] : e \in P}
  IN ends(swept \ {"swept"}) \cup
     IF "swept" \notin swept THEN {}
     ELSE IF cyc THEN ends(RunsAway)
     ELSE IF s < max_cycle THEN goes({after}, [c EXCEPT !.subcount = s])
     ELSE IF ~c.down
       THEN goes(Exchange(after),
                 [c EXCEPT !.subcount = 0, !.current_level = RefineTo(l),
                           !.down = (RefineTo(l) = 0)])
     ELSE IF max_level > 0
       THEN IF l # 0 /\ inc THEN ends(RunsAway)
            ELSE goes(Exchange(after),
                      [c EXCEPT !.subcount = 0, !.current_level = CoarsenTo(l),
                                !.down = ~(CoarsenTo(l) = max_level)])
     ELSE goes({after}, [c EXCEPT !.subcount = 0])

\* Two ranks at the start of the loop of the same solve.
InitMGRanks ==
  /\ ver = "mg"
  /\ nproc \in {n \in 2 .. MaxNXPE : is_pow2(n)}
  /\ maxits \in 0 .. MaxMaxits
  /\ RanksInit(nproc)
  /\ build \in {"checked", "unchecked"}
  /\ predict_exit = FALSE
  /\ max_cycle \in 0 .. MaxCycle
  /\ max_level \in 0 .. MaxLevel
  /\ mg_pc = "idle"
  /\ mg_count = 0
  /\ subcount = 0
  /\ cyclecount = 0
  /\ cycle_eta = 0
  /\ current_level = 0
  /\ down = TRUE
  /\ myproc = 0
  /\ converged = [m \in Modes |-> FALSE]
  /\ unsynced = 0
  /\ lastcheck = 0
  /\ peak = 0
  /\ CacheIdle /\ SetupIdle /\ PcrIdle /\ LibIdle
  /\ ncalls = 0
  /\ ipt_mean_its = <<0, 1>>
  /\ since = <<0, 0>>
  /\ initialisedGlobal = FALSE
  /\ globalInstance = 0
  /\ made = 0
  /\ got = <<"none", 0>>
  /\ onFirstX = TRUE
  /\ onLastX = TRUE
  /\ minvb = <<>>
  /\ upperGuardVector = <<>>
  /\ lowerGuardVector = <<>>
  /\ xk1dlast = <<>>
  /\ xk1d = <<>>
  /\ nrec = 0
  /\ \E p, q \in 0 .. nproc - 1 :
       /\ p < q
       /\ ranks = [r \in {p, q} |->
                    [pc |-> "loop", count |-> 0, subcount |-> 0,
                     cyclecount |-> 0, current_level |-> 0, down |-> TRUE]]

\* One pass of the loop body on one of the ranks.
MGRankStep ==
  \E p \in DOMAIN ranks :
    /\ ranks[p].pc = "loop"
    /\ \E d \in MGIterate(p, ranks[p]) : ranks' = [ranks EXCEPT ![p] = d]
    /\ UNCHANGED <<trivars, mgvars, cachevars, setupvars, pcrvars, ncalls,
                   ipt_mean_its, since, initialisedGlobal, globalInstance,
                   made, got, recvars, libvars>>

SpecMGRanks == InitMGRanks /\ [][MGRankStep]_vars

(***************************************************************************)
(* LaplacePCR: the member nsys and the calls of cr_pcr_solver, which       *)
(* sizes its work arrays by nsys and runs every loop over the systems to   *)
(* nsys.  The FieldPerp solve passes the members a, b, c, bcmplx, xcmplx,  *)
(* which the constructor allocates with nmode rows; the Field3D solve      *)
(* passes local matrices with nmode * ny rows, ny the number of y points   *)
(* it solves on.                                                           *)
(***************************************************************************)

\* Largest number of y points a Field3D solve works on.
MaxLocalNy == 3

\* No solver object and no PetscLib object exists yet.
InitLibs ==
  /\ ver = "v3"
  /\ InitCommon(1)

\* The constructor: nmode = maxmode + 1, the members a, b, c, bcmplx, xcmplx
\* get nmode rows.  It assigns nothing to nsys, which so holds what its
\* declaration or the memory of the object gives it.
KernelConstruct ==
  /\ crcall.st = "none"
  /\ \E nm \in 1 .. MaxMode + 1 :
       crcall' = [crcall EXCEPT !.st = "ready", !.nmode = nm]
  /\ nsys' \in 0 .. (MaxMode + 1) * MaxLocalNy
  /\ UNCHANGED <<trivars, mgvars, cachevars, setupvars, pcrvars, ncalls,
                 ipt_mean_its, since, initialisedGlobal, globalInstance, made,
                 got, recvars, ranks, petsclib>>

\* Ways cr_pcr_solver can end when it loops over n systems of matrices that
\* have r rows: beyond the rows the index check fails, or without the check
\* the call reads and writes outside the matrices.
KernelEnd(n, r) ==
  IF n > r THEN {"raised_assert", "crashed", "ready"} ELSE {"ready"}

\* solve(const FieldPerp&, const FieldPerp&): cr_pcr_solver(a, b, c, bcmplx,
\* xcmplx) with nsys as it stands.
SolveFieldPerp ==
  /\ crcall.st = "ready"
  /\ crcall.calls < MaxSolves
  /\ crcall' \in [st : KernelEnd(nsys, crcall.nmode), nmode : {crcall.nmode},
                  rows : {crcall.nmode}, nsys : {nsys},
                  calls : {crcall.calls + 1}]
  /\ UNCHANGED <<trivars, mgvars, cachevars, setupvars, pcrvars, ncalls,
                 ipt_mean_its, since, initialisedGlobal, globalInstance, made,
                 got, recvars, ranks, nsys, petsclib>>

\* solve(const Field3D&, const Field3D&): nsys = nmode * ny, the matrices
\* a3D, b3D, c3D, bcmplx3D, xcmplx3D are made with nsys rows, cr_pcr_solver.
SolveField3D ==
  /\ crcall.st = "ready"
  /\ crcall.calls < MaxSolves
  /\ \E ny \in 1 .. MaxLocalNy :
       /\ nsys' = crcall.nmode * ny
       /\ crcall' \in [st : KernelEnd(nsys', crcall.nmode * ny),
                       nmode : {crcall.nmode}, rows : {crcall.nmode * ny},
                       nsys : {nsys'}, calls : {crcall.calls + 1}]
  /\ UNCHANGED <<trivars, mgvars, cachevars, setupvars, pcrvars, ncalls,
                 ipt_mean_its, since, initialisedGlobal, globalInstance, made,
                 got, recvars, ranks, petsclib>>

SpecKernel ==
  InitLibs /\ [][KernelConstruct \/ SolveFieldPerp \/ SolveField3D]_vars

(***************************************************************************)
(* PetscLib: the static instance counter and the PETSc library behind it.  *)
(* PetscFinalize on a library that is not initialised returns an error     *)
(* code, which the callers do not read.                                    *)
(***************************************************************************)

\* PetscLib::PetscLib: PetscInitialize if count == 0, then count++.
PetscConstruct ==
  /\ petsclib.alive < MaxInstances
  /\ petsclib' = [count |-> petsclib.count + 1,
                  alive |-> petsclib.alive + 1,
                  initialised |-> petsclib.count = 0 \/ petsclib.initialised,
                  last |-> IF petsclib.count = 0 THEN "ctor_init" ELSE "ctor",
                  refinal |-> FALSE]
  /\ UNCHANGED <<trivars, mgvars, cachevars, setupvars, pcrvars, ncalls,
                 ipt_mean_its, since, initialisedGlobal, globalInstance, made,
                 got, recvars, ranks, nsys, crcall>>

\* PetscLib::~PetscLib: count--, then PetscFinalize if count == 0.
PetscDestroy ==
  /\ petsclib.alive > 0
  /\ LET final == petsclib.count - 1 = 0
     IN petsclib' = [count |-> petsclib.count - 1,
                     alive |-> petsclib.alive - 1,
                     initialised |-> petsclib.initialised /\ ~final,
                     last |-> IF final THEN "dtor_final" ELSE "dtor",
                     refinal |-> final /\ ~petsclib.initialised]
  /\ UNCHANGED <<trivars, mgvars, cachevars, setupvars, pcrvars, ncalls,
                 ipt_mean_its, since, initialisedGlobal, globalInstance, made,
                 got, recvars, ranks, nsys, crcall>>

\* PetscLib::cleanup: nothing if count == 0, else PetscFinalize and count = 0.
PetscCleanup ==
  /\ LET final == petsclib.count # 0
     IN petsclib' = [count |-> 0,
                     alive |-> petsclib.alive,
                     initialised |-> petsclib.initialised /\ ~final,
                     last |-> IF final THEN "cleanup_final" ELSE "cleanup",
                     refinal |-> final /\ ~petsclib.initialised]
  /\ UNCHANGED <<trivars, mgvars, cachevars, setupvars, pcrvars, ncalls,
                 ipt_mean_its, since, initialisedGlobal, globalInstance, made,
                 got, recvars, ranks, nsys, crcall>>

SpecPetsc ==
  InitLibs /\ [][PetscConstruct \/ PetscDestroy \/ PetscCleanup]_vars

\* What the text of a budget failure names.  Laplace1DMG formats maxits only
\* into either message; LaplaceParallelTri formats maxits and BoutComm::rank().
FailureNames(v) == IF v = "mg" THEN {"maxits"} ELSE {"maxits", "rank"}

\* C25: every failure raised by a solve identifies both the mode index and the
\* rank on which it was detected: whenever the multigrid solve has raised one
\* of its two budget failures, the failure names the mode and the rank.
C25_FailureNamesModeAndRank ==
  mg_pc \in {"budget_too_low", "not_guaranteed"} =>
    {"mode", "rank"} \subseteq FailureNames(ver)

\* C29: every solve ends, by returning or by raising the budget-exceeded
\* failure, after at most maxits + 1 iterations of its main loop: a step taken
\* inside the loop of the multigrid solve leads to the loop going on, to its
\* exit or to the budget test, with count not above maxits + 1.
C29_EndsWithinBudget ==
  [][(mg_pc \in {"sweep", "cycle", "advance"}) =>
       (mg_pc' \in {"sweep", "cycle", "advance", "total_residual", "budget",
                    "after_loop"}
        /\ mg_count' <= maxits + 1)]_vars

\* C30: every call of Level::calculate_residual terminates, having written the
\* residual only at in-range indices of the unconverged modes: the two places
\* of the loop that call it (the end of a cycle on level 0, the way down on a
\* coarse level) are never followed by an assertion failure or a crash.
C30_ResidualReturns ==
  [][(mg_pc \in {"cycle", "advance"}) =>
       (mg_pc' \notin {"raised_assert", "crashed"})]_vars

\* C24: the reported mean iteration count equals the arithmetic mean of the
\* iteration counts of the solves performed since the counter was last reset:
\* ipt_mean_its = sum / number over the mode solves since the reset.
C24_MeanSinceReset ==
  since[2] > 0 => ipt_mean_its[1] * since[2] = since[1] * ipt_mean_its[2]

\* C27: getInstance called with the global mesh returns a valid (non-null)
\* pointer to the global instance, in any sequence of getInstance,
\* recreateGlobalInstance and cleanup calls: the pointer last returned for the
\* global mesh is not null.
C27_GlobalInstanceValid ==
  got[1] = "global" => got[2] # 0

C28_RanksInStep ==
  \A p, q \in DOMAIN ranks :
    /\ (ranks[p].pc = "loop" /\ ranks[q].pc = "loop"
          /\ ranks[p].count = ranks[q].count)
         => ranks[p] = ranks[q]
    /\ ranks[p].pc = "budget" => ranks[q].pc \in {"loop", "budget"}

\* C31: on every level and every rank included in it, the in-neighbour and
\* the out-neighbour the rank exchanges with are ranks in 0 .. P-1 that are
\* included in the level, and the relation is symmetric, also when max_level
\* exceeds log2(P): checked on the rank followed, for every level its
\* Level::init has set, with one row of ranks (the first rank has no
\* in-neighbour, the last no out-neighbour).
C31_NeighboursValid ==
  \A l \in 0 .. 30 :
    (nype = 1 /\ s_pc # "crashed" /\ levels[l].st = "init"
       /\ levels[l].included) =>
      LET v == 2 ^ l
          np == nproc
          isLast(q) == q = np - 1
          inc(q) == l = 0 \/ LevelIncluded(q, v, isLast(q))
          i == proc_in(myproc, l, v, xproc = np - 1)
          o == proc_out(myproc, l, v, np)
      IN /\ xproc # 0 =>
              /\ i \in 0 .. np - 1
              /\ inc(i)
              /\ proc_out(i, l, v, np) = myproc
         /\ xproc # np - 1 =>
              /\ o \in 0 .. np - 1
              /\ inc(o)
              /\ proc_in(o, l, v, isLast(o)) = myproc

\* C32: the point-to-point messages of refine, synchronize_reduced_field and
\* the coarse-level init are matched at every level: for the rank followed
\* and every coarse level its Level::init has set (one row of ranks), each
\* send-receive of init and synchronize_reduced_field it issues meets that of
\* a neighbour which names it in turn, each send of refine goes to a rank
\* that posts the receive for it, and each receive of refine is from a rank
\* that sends.
C32_MessagesMatched ==
  \A l \in 1 .. 30 :
    (nype = 1 /\ s_pc # "crashed" /\ levels[l].st = "init") =>
      LET np == nproc
          p == myproc
          isFirst(q) == q = 0
          isLast(q) == q = np - 1
          inc(q, k) == k = 0 \/ LevelIncluded(q, 2 ^ k, isLast(q))
          in(q, k) == proc_in(q, k, 2 ^ k, isLast(q))
          out(q, k) == proc_out(q, k, 2 ^ k, np)
          sender(q) == inc(q, l) /\ (~isLast(q) \/ l > 1)
          receiver(q) == (inc(q, l - 1) /\ ~inc(q, l)) \/ (isLast(q) /\ l = 1)
          ok(q) == q \in 0 .. np - 1
      IN /\ (inc(p, l) /\ ~isFirst(p)) =>
              (ok(in(p, l)) /\ inc(in(p, l), l) /\ ~isLast(in(p, l))
                 /\ out(in(p, l), l) = p)
         /\ (inc(p, l) /\ ~isLast(p)) =>
              (ok(out(p, l)) /\ inc(out(p, l), l) /\ ~isFirst(out(p, l))
                 /\ in(out(p, l), l) = p)
         /\ (sender(p) /\ ~isLast(p)) =>
              (ok(out(p, l - 1)) /\ receiver(out(p, l - 1))
                 /\ ~isFirst(out(p, l - 1)) /\ in(out(p, l - 1), l - 1) = p)
         /\ (sender(p) /\ ~isFirst(p)) =>
              (ok(in(p, l - 1)) /\ receiver(in(p, l - 1))
                 /\ ~isLast(in(p, l - 1)) /\ out(in(p, l - 1), l - 1) = p)
         /\ (receiver(p) /\ ~isFirst(p)) =>
              (ok(in(p, l - 1)) /\ sender(in(p, l - 1))
                 /\ ~isLast(in(p, l - 1)) /\ out(in(p, l - 1), l - 1) = p)
         /\ (receiver(p) /\ ~isLast(p)) =>
              (ok(out(p, l - 1)) /\ sender(out(p, l - 1))
                 /\ ~isFirst(out(p, l - 1)) /\ in(out(p, l - 1), l - 1) = p)

C35_OneIterationBeforeLeaving ==
  \A p \in Procs :
    (ver = "v3" /\ pc[p] \in {"after_loop", "raised"}) =>
      /\ count[p] >= 1
      /\ xloc[p][1][3] = kz[p] /\ xloc[p][1][4] >= 0
      /\ xloc[p][2][3] = kz[p] /\ xloc[p][2][4] >= 0
      /\ ~firstX(p) => (xloc[p][0][1] = p - 1 /\ xloc[p][0][3] = kz[p])
      /\ ~lastX(p) => (xloc[p][3][1] = p + 1 /\ xloc[p][3][3] = kz[p])

\* Two ranks, each a boundary rank, have both left the loop of the second
\* mode by the break.
C35_Witness ==
  /\ ver = "v3"
  /\ nproc = 2
  /\ \A p \in Procs : pc[p] = "after_loop" /\ kz[p] = MaxMode /\ count[p] >= 1

(***************************************************************************)
(* C36.  Every index that a relaxation sweep uses to read or write the     *)
(* arrays of its level lies within their extent, on level 0 and on the     *)
(* coarse levels: no sweep of the solve ends in an assertion failure of    *)
(* the index check or in a crash.                                          *)
(***************************************************************************)
C36_SweepIndicesInRange ==
  [][(mg_pc = "sweep") => (mg_pc' \notin {"raised_assert", "crashed"})]_vars

(***************************************************************************)
(* C37.  At every call of cr_pcr_solver the number of systems nsys it      *)
(* iterates over equals the number of rows of the coefficient matrices     *)
(* passed to it, in the FieldPerp solve and in the Field3D solve, whatever *)
(* the order of the solves.                                                *)
(***************************************************************************)
C37_NsysIsRows == crcall.calls > 0 => crcall.nsys = crcall.rows

(***************************************************************************)
(* C38.  In any sequence of constructions, destructions and cleanup()      *)
(* calls a destructor finalises PETSc only when no PetscLib object is left *)
(* alive, and PETSc is never finalised while it is not initialised.        *)
(***************************************************************************)
C38_FinalisedOnceByLast ==
  /\ petsclib.last = "dtor_final" => petsclib.alive = 0
  /\ ~petsclib.refinal

====
